---- MODULE Spec2Model ----
(***************************************************************************)
(* Threshold-issued anonymous credentials (KereMath/Evoting, src/crypto).   *)
(*                                                                         *)
(* Representation.  The pairing is PBC type A (setup.cpp:10), which is     *)
(* symmetric: G1 and G2 are the same cyclic group of prime order p.  A     *)
(* group element is written as its discrete logarithm in 0..p-1 to one     *)
(* fixed generator, so that                                                *)
(*     element_mul(a, b)      is  (a + b) % p                              *)
(*     element_pow_zn(a, e)   is  (a * e) % p                              *)
(*     element_set1           is  0                                        *)
(*     pairing_apply(a, b)    is  (a * b) % p   (an element of GT)         *)
(* Scalars of Zr are the integers 0..p-1.  The prime is scaled down from   *)
(* the 256-bit order the program uses.                                     *)
(***************************************************************************)
EXTENDS Integers, Sequences, FiniteSets, TLC

VARIABLES
    params,   \* TIACParams: [prime_order, g1, h1, g2]
    pc,       \* position of the driver of the specification at hand
    lag,      \* one call of computeLagrangeCoefficient: [allIDs, idx, outCoeff]
    dkg,      \* the state the DKG commands pass between each other
    run,      \* main()'s pipeline state for one voter
    shr,      \* one share of keygen.cpp: polynomials, commitments, share, verdict
    kor,      \* one knowledge-of-representation proof and its verdict
    sgn,      \* one blindSign / unblindSign exchange between a voter and an EA
    prs,      \* one credential and the presentations made from it
    agg,      \* one call of aggregateSign and the call on a reordered list
    cli,      \* one run of the DKG command line: argv, exit code, stdout, stderr
    wasm,     \* the statics of blindsign_wasm.c and the result of the last call
    sha,      \* one call of the SHA512 routine of sha512.c
    thr       \* threads sampling scalars and the generator state they use

vars == <<params, pc, lag, dkg, run, shr, kor, sgn, prs, agg, cli, wasm, sha, thr>>

(***************************************************************************)
(* Bounds of the model.                                                    *)
(***************************************************************************)
MaxAdminId == 4      \* admin IDs are 0..MaxAdminId
MaxIDs == 4          \* longest ID list handed to computeLagrangeCoefficient

MaxEA == 4           \* main(): the number of EAs is 1..MaxEA
MaxSeed == 2         \* seeds of the random generators are 0..MaxSeed
MaxPolySize == 3     \* keygen.cpp: polynomials have 1..MaxPolySize coefficients
MaxPolySeed == 7     \* keygen.cpp: seeds of the dealer's generator are 0..MaxPolySeed
MaxIndex == 4        \* receiver indices are 1..MaxIndex
MaxDkgEA == 3        \* the DKG runs with 2..MaxDkgEA EAs
MaxKorSeed == 7      \* seeds of the prover's element_random stream are 0..MaxKorSeed
MaxSigs == 3         \* aggregateSign is given 1..MaxSigs partial signatures

PrimeOrders == {7, 11, 13, 17, 19, 23}
IssuePrimeOrders == {7}
VoterIDs == {<<1, 0>>, <<4, 2>>}

Idle == [unused |-> TRUE]

(***************************************************************************)
(* Arithmetic of GMP and PBC.                                              *)
(***************************************************************************)
\* element_set_mpz / element_set_si on Zr, mpz_mod: the residue in 0..p-1.
element_set_mpz(z, p) == z % p

\* mpz_tdiv_q_ui: quotient truncated towards zero.
mpz_tdiv_q_ui(n, d) == IF n >= 0 THEN n \div d ELSE -((-n) \div d)

RECURSIVE mpz_gcd(_, _)
mpz_gcd(a, b) == IF b = 0 THEN a ELSE mpz_gcd(b, a % b)

RECURSIVE PowMod(_, _, _)
PowMod(b, e, m) == IF e = 0 THEN 1 % m ELSE (b * PowMod(b, e - 1, m)) % m

\* (unsigned long)(r_ui * k + numerator) % denominator: a negative sum wraps
\* once around 2^64 before the remainder is taken.
WrapU64Mod(x, d) == IF x >= 0 THEN x % d ELSE (PowMod(2, 64, d) + (x % d)) % d

\* The inverse of a in Zr (a not 0 mod p, p prime).
ZrInverse(a, p) == CHOOSE b \in 1..(p - 1) : (a * b) % p = 1

RECURSIVE SeqProdMod(_, _)
SeqProdMod(s, p) ==
    IF s = <<>> THEN 1 % p ELSE (Head(s) * SeqProdMod(Tail(s), p)) % p

(***************************************************************************)
(* aggregate.cpp: setFraction and computeLagrangeCoefficient.              *)
(***************************************************************************)
\* The first k in 0..denominator-1 with p*k + numerator divisible by the
\* denominator (as the unsigned loop decides it), or -1.
setFraction_solution_k(groupOrder, numerator, denominator) ==
    LET r_ui == groupOrder % denominator
        hits == {k \in 0..(denominator - 1) :
                    WrapU64Mod(r_ui * k + numerator, denominator) = 0}
    IN  IF hits = {} THEN -1
        ELSE CHOOSE k \in hits : \A k2 \in hits : k <= k2

setFraction(groupOrder, numerator, denominator) ==
    IF mpz_gcd(groupOrder, denominator) # 1 THEN 0
    ELSE LET solution_k == setFraction_solution_k(groupOrder, numerator, denominator)
         IN  IF solution_k < 0 THEN 0
             ELSE element_set_mpz(
                      mpz_tdiv_q_ui(groupOrder * solution_k + numerator, denominator),
                      groupOrder)

SeqToSet(s) == {s[i] : i \in 1..Len(s)}

\* The branch for lists of two IDs with (p + 1) / 2 in place of (p + 3) / 2.
LagrangeTable2_half(has, cur, p) ==
    IF 1 \in has /\ 2 \in has THEN
        (IF cur = 1 THEN element_set_mpz(2, p) ELSE element_set_mpz(p - 1, p))
    ELSE IF 1 \in has /\ 3 \in has THEN
        (IF cur = 1 THEN element_set_mpz(mpz_tdiv_q_ui(p + 1, 2), p)
         ELSE element_set_mpz(mpz_tdiv_q_ui(p - 1, 2), p))
    ELSE IF 2 \in has /\ 3 \in has THEN
        (IF cur = 2 THEN element_set_mpz(3, p) ELSE element_set_mpz(p - 2, p))
    ELSE 1 % p

\* The branch for lists of two IDs (aggregate.cpp:79-130).
LagrangeTable2(has, cur, p) ==
    IF 1 \in has /\ 2 \in has THEN
        (IF cur = 1 THEN element_set_mpz(2, p) ELSE element_set_mpz(p - 1, p))
    ELSE IF 1 \in has /\ 3 \in has THEN
        (IF cur = 1 THEN element_set_mpz(mpz_tdiv_q_ui(p + 3, 2), p)
         ELSE element_set_mpz(mpz_tdiv_q_ui(p - 1, 2), p))
    ELSE IF 2 \in has /\ 3 \in has THEN
        (IF cur = 2 THEN element_set_mpz(3, p) ELSE element_set_mpz(p - 2, p))
    ELSE 1 % p

\* The branch for lists of three IDs (aggregate.cpp:131-315).  mpz_divexact_ui
\* is only ever applied where the division is exact for a prime p > 3.
LagrangeTable3(has, cur, p) ==
    IF 1 \in has /\ 2 \in has /\ 3 \in has THEN
        (IF cur = 1 THEN element_set_mpz(3, p)
         ELSE IF cur = 2 THEN element_set_mpz(p - 3, p)
         ELSE element_set_mpz(1, p))
    ELSE IF 1 \in has /\ 2 \in has /\ 4 \in has THEN
        (IF cur = 1 THEN setFraction(p, 8, 3)
         ELSE IF cur = 2 THEN element_set_mpz(p - 2, p)
         ELSE setFraction(p, 1, 3))
    ELSE IF 1 \in has /\ 2 \in has /\ 5 \in has THEN
        (IF cur = 1 THEN element_set_mpz((p + 5) \div 2, p)
         ELSE IF cur = 2 THEN
            (IF p % 3 = 2 THEN element_set_mpz((p - 5) \div 3, p)
             ELSE element_set_mpz((2 * p - 5) \div 3, p))
         ELSE
            (IF p % 6 = 5 THEN element_set_mpz((p + 1) \div 6, p)
             ELSE element_set_mpz((5 * p + 1) \div 6, p)))
    ELSE IF 1 \in has /\ 3 \in has /\ 4 \in has THEN
        (IF cur = 1 THEN element_set_mpz(2, p)
         ELSE IF cur = 3 THEN element_set_mpz(p - 2, p)
         ELSE element_set_mpz(1, p))
    ELSE IF 1 \in has /\ 3 \in has /\ 5 \in has THEN
        (IF cur = 1 THEN setFraction(p, 15, 8)
         ELSE IF cur = 3 THEN setFraction(p, -5, 4)
         ELSE setFraction(p, 3, 8))
    ELSE IF 1 \in has /\ 4 \in has /\ 5 \in has THEN
        (IF cur = 1 THEN
            (IF p % 3 = 2 THEN element_set_mpz((2 * p + 5) \div 3, p)
             ELSE element_set_mpz((p + 5) \div 3, p))
         ELSE IF cur = 4 THEN
            (IF p % 3 = 2 THEN element_set_mpz((p - 5) \div 3, p)
             ELSE element_set_mpz((2 * p - 5) \div 3, p))
         ELSE element_set_mpz(1, p))
    ELSE IF 2 \in has /\ 3 \in has /\ 4 \in has THEN
        (IF cur = 2 THEN element_set_mpz(6, p)
         ELSE IF cur = 3 THEN element_set_mpz(p - 8, p)
         ELSE element_set_mpz(3, p))
    ELSE IF 2 \in has /\ 3 \in has /\ 5 \in has THEN
        (IF cur = 2 THEN element_set_mpz(5, p)
         ELSE IF cur = 3 THEN element_set_mpz(p - 5, p)
         ELSE element_set_mpz(1, p))
    ELSE IF 2 \in has /\ 4 \in has /\ 5 \in has THEN
        (IF cur = 2 THEN setFraction(p, 10, 3)
         ELSE IF cur = 4 THEN element_set_mpz(p - 5, p)
         ELSE setFraction(p, 8, 3))
    ELSE IF 3 \in has /\ 4 \in has /\ 5 \in has THEN
        (IF cur = 3 THEN element_set_mpz(10, p)
         ELSE IF cur = 4 THEN element_set_mpz(p - 15, p)
         ELSE element_set_mpz(6, p))
    ELSE 1 % p

\* computeLagrangeCoefficient(outCoeff, allIDs, idx, groupOrder, pairing);
\* idx is 1-based here (the code's idx + 1).
computeLagrangeCoefficient(allIDs, idx, groupOrder) ==
    IF allIDs = <<>> THEN 1 % groupOrder
    ELSE LET shiftedIDs == [i \in 1..Len(allIDs) |-> allIDs[i] + 1]
             shiftedCurrentAdminID == shiftedIDs[idx]
             has == SeqToSet(shiftedIDs) \cap 1..5
         IN  IF Len(shiftedIDs) = 2
                 THEN LagrangeTable2(has, shiftedCurrentAdminID, groupOrder)
             ELSE IF Len(shiftedIDs) = 3
                 THEN LagrangeTable3(has, shiftedCurrentAdminID, groupOrder)
             ELSE 1 % groupOrder

\* The closed form of the specification (section 4.7):
\* lambda_k = prod_{j # k} (-x_j) * (x_k - x_j)^(-1) mod p, x_j = adminId_j + 1.
ClosedFormLagrange(allIDs, idx, p) ==
    LET x(j) == allIDs[j] + 1
        others == SelectSeq([j \in 1..Len(allIDs) |-> j], LAMBDA j : j # idx)
        factor(j) == (((-x(j)) % p) * ZrInverse((x(idx) - x(j)) % p, p)) % p
    IN  SeqProdMod([m \in 1..Len(others) |-> factor(others[m])], p)

(***************************************************************************)
(* Group, pairing and serialisation primitives (PBC).                      *)
(***************************************************************************)
G_identity == 0
element_mul(a, b, p) == (a + b) % p          \* product in G1 / G2
element_pow_zn(a, e, p) == (a * e) % p       \* a^e, also element_pow_mpz
pairing_apply(a, b, p) == (a * b) % p        \* e(a, b) in GT
Zr_mul(a, b, p) == (a * b) % p               \* element_mul on Zr
Zr_sub(a, b, p) == (a - b) % p               \* element_sub on Zr

\* elementToStringG1 / elementToStringG2 / elemToStrG1 / elementToHexStr:
\* element_to_bytes, then two lowercase hex digits per byte.  An element of
\* the scaled-down group has one byte; a digit is written as its value 0..15.
elementToStringG1(e) == <<e \div 16, e % 16>>

\* hexToBytes and element_from_bytes: the element a hex string spells.
RECURSIVE hexToBytes(_)
hexToBytes(hex) ==
    IF Len(hex) < 2 THEN <<>>
    ELSE <<16 * hex[1] + hex[2]>> \o hexToBytes(SubSeq(hex, 3, Len(hex)))

element_from_bytes(bytes) == bytes[1]

\* SHA512 over a string of hex digits, as the big-endian integer of the
\* digest: a stand-in mixing function with a small range.
RECURSIVE SHA512(_)
SHA512(msg) ==
    IF msg = <<>> THEN 17
    ELSE (SHA512(SubSeq(msg, 1, Len(msg) - 1)) * 31 + msg[Len(msg)] + 1) % 1021

RECURSIVE Concat(_)
Concat(strs) == IF strs = <<>> THEN <<>> ELSE Head(strs) \o Concat(Tail(strs))

\* hashToZr (prepareblindsign.cpp:38, blindsign.cpp:23) and the inline
\* hashing of kor.cpp:137-162 and checkkorverify.cpp:119-156: SHA-512 of the
\* concatenated hex encodings, read as an integer, reduced mod p.
hashToZr(elems, p) ==
    SHA512(Concat([i \in 1..Len(elems) |-> elementToStringG1(elems[i])])) % p

\* element_from_hash on G1: a deterministic map from a string to a
\* non-identity element of the group.
element_from_hash(data, p) == 1 + ((SHA512(data) * 7 + 3) % (p - 1))

\* hashToG1(out, params, inElem)
hashToG1(inElem, p) == element_from_hash(elementToStringG1(inElem), p)

\* didStringToMpz and main()'s mpz_set_str(did, 16) with mpz_mod.
RECURSIVE mpz_set_str16(_)
mpz_set_str16(str) ==
    IF str = <<>> THEN 0
    ELSE 16 * mpz_set_str16(SubSeq(str, 1, Len(str) - 1)) + str[Len(str)]

didStringToMpz(didStr, p) == mpz_set_str16(didStr) % p

(***************************************************************************)
(* prepareblindsign.cpp                                                    *)
(***************************************************************************)
\* The responses formed as r + c * secret instead of r - c * secret.
computeKoR_plus(par, com, comi, g1, h1, h, oi, did, o, r1, r2, r3) ==
    LET p == par.prime_order
        comi_prime == element_mul(element_pow_zn(g1, r1, p), element_pow_zn(h1, r2, p), p)
        com_prime == element_mul(element_pow_zn(g1, r3, p), element_pow_zn(h, r2, p), p)
        c == hashToZr(<<g1, h, h1, com, com_prime, comi, comi_prime>>, p)
    IN  [c |-> c,
         s1 |-> (r1 + c * oi) % p,
         s2 |-> (r2 + c * did) % p,
         s3 |-> (r3 + c * o) % p]

\* computeKoR; r1, r2, r3 are the three element_random draws.
computeKoR(par, com, comi, g1, h1, h, oi, did, o, r1, r2, r3) ==
    LET p == par.prime_order
        comi_prime == element_mul(element_pow_zn(g1, r1, p), element_pow_zn(h1, r2, p), p)
        com_prime == element_mul(element_pow_zn(g1, r3, p), element_pow_zn(h, r2, p), p)
        c == hashToZr(<<g1, h, h1, com, com_prime, comi, comi_prime>>, p)
    IN  [c |-> c,
         s1 |-> (r1 - c * oi) % p,
         s2 |-> (r2 - c * did) % p,
         s3 |-> (r3 - c * o) % p]

\* prepareBlindSign(params, didStr); oi, o are its two element_random draws.
prepareBlindSign(par, didStr, oi, o, r1, r2, r3) ==
    LET p == par.prime_order
        didInt == didStringToMpz(didStr, p)
        comi == element_mul(element_pow_zn(par.g1, oi, p),
                            element_pow_zn(par.h1, didInt, p), p)
        h == hashToG1(comi, p)
        com == element_mul(element_pow_zn(par.g1, o, p),
                           element_pow_zn(h, didInt, p), p)
    IN  [comi |-> comi, h |-> h, com |-> com,
         pi_s |-> computeKoR(par, com, comi, par.g1, par.h1, h, oi, didInt, o, r1, r2, r3),
         o |-> o,
         com_str |-> elementToStringG1(com)]

(***************************************************************************)
(* blindsign.cpp                                                           *)
(***************************************************************************)
\* The seven elements CheckKoR hashes, in order.
CheckKoR_toHash(par, com, comi, h, pi_s) ==
    LET p == par.prime_order
        comi_double == element_mul(
                           element_mul(element_pow_zn(par.g1, pi_s.s1, p),
                                       element_pow_zn(par.h1, pi_s.s2, p), p),
                           element_pow_zn(comi, pi_s.c, p), p)
        com_double == element_mul(
                          element_mul(element_pow_zn(par.g1, pi_s.s3, p),
                                      element_pow_zn(h, pi_s.s2, p), p),
                          element_pow_zn(com, pi_s.c, p), p)
    IN  <<par.g1, h, par.h1, com, com_double, comi, comi_double>>

CheckKoR(par, com, comi, h, pi_s) ==
    hashToZr(CheckKoR_toHash(par, com, comi, h, pi_s), par.prime_order) = pi_s.c

\* blindSign without the comparison of Hash(comi) with h.
blindSign_noHashCheck(par, bsOut, xm, ym, adminId, voterId) ==
    LET p == par.prime_order
    IN  IF ~CheckKoR(par, bsOut.com, bsOut.comi, bsOut.h, bsOut.pi_s)
            THEN [threw |-> "blindSign: KoR check failed"]
        ELSE [threw |-> "",
              h |-> bsOut.h,
              cm |-> element_mul(element_pow_zn(bsOut.h, element_set_mpz(xm, p), p),
                                 element_pow_zn(bsOut.com, element_set_mpz(ym, p), p), p),
              adminId |-> adminId,
              voterId |-> voterId]

\* blindSign: a BlindSignature, or the std::runtime_error it throws.
blindSign(par, bsOut, xm, ym, adminId, voterId) ==
    LET p == par.prime_order
    IN  IF ~CheckKoR(par, bsOut.com, bsOut.comi, bsOut.h, bsOut.pi_s)
            THEN [threw |-> "blindSign: KoR check failed"]
        ELSE IF element_from_hash(elementToStringG1(bsOut.comi), p) # bsOut.h
            THEN [threw |-> "blindSign: Hash(comi) != h"]
        ELSE [threw |-> "",
              h |-> bsOut.h,
              cm |-> element_mul(element_pow_zn(bsOut.h, element_set_mpz(xm, p), p),
                                 element_pow_zn(bsOut.com, element_set_mpz(ym, p), p), p),
              adminId |-> adminId,
              voterId |-> voterId]

(***************************************************************************)
(* unblindsign.cpp                                                         *)
(***************************************************************************)
\* unblindSign without the comparison of the two pairings.
unblindSign_noPairingCheck(par, bsOut, blindSig, eaKey, didStr) ==
    LET p == par.prime_order
        h == blindSig.h
        s_m == element_mul(blindSig.cm,
                           element_pow_zn(eaKey.vkm3, (-bsOut.o) % p, p), p)
    IN  IF hashToG1(bsOut.comi, p) # bsOut.h
            THEN [threw |-> "unblindSign: Hash(comi) != h"]
        ELSE [threw |-> "", h |-> h, s_m |-> s_m]

unblindSign(par, bsOut, blindSig, eaKey, didStr) ==
    LET p == par.prime_order
        didInt == didStringToMpz(didStr, p)
        h == blindSig.h
        s_m == element_mul(blindSig.cm,
                           element_pow_zn(eaKey.vkm3, (-bsOut.o) % p, p), p)
        multiplier == element_mul(eaKey.vkm1, element_pow_zn(eaKey.vkm2, didInt, p), p)
    IN  IF hashToG1(bsOut.comi, p) # bsOut.h
            THEN [threw |-> "unblindSign: Hash(comi) != h"]
        ELSE IF pairing_apply(h, multiplier, p) # pairing_apply(s_m, par.g2, p)
            THEN [threw |-> "unblindSign: Pairing check failed"]
        ELSE [threw |-> "", h |-> h, s_m |-> s_m]

(***************************************************************************)
(* aggregate.cpp: aggregateSign on a non-empty list of                     *)
(* [adminId, sig] pairs.                                                   *)
(***************************************************************************)
\* The loop of aggregateSign with entry i raised to the coefficient of the
\* next entry's admin ID.
RECURSIVE aggregateSign_loop_nextId(_, _, _, _)
aggregateSign_loop_nextId(par, partialSigsWithAdmins, allIDs, i) ==
    IF i = 0 THEN G_identity
    ELSE LET p == par.prime_order
             lambda == computeLagrangeCoefficient(allIDs, (i % Len(allIDs)) + 1, p)
             s_m_exp == element_pow_zn(partialSigsWithAdmins[i].sig.s_m, lambda, p)
         IN  element_mul(aggregateSign_loop_nextId(par, partialSigsWithAdmins, allIDs, i - 1),
                         s_m_exp, p)

RECURSIVE aggregateSign_loop(_, _, _, _)
aggregateSign_loop(par, partialSigsWithAdmins, allIDs, i) ==
    IF i = 0 THEN G_identity
    ELSE LET p == par.prime_order
             lambda == computeLagrangeCoefficient(allIDs, i, p)
             s_m_exp == element_pow_zn(partialSigsWithAdmins[i].sig.s_m, lambda, p)
         IN  element_mul(aggregateSign_loop(par, partialSigsWithAdmins, allIDs, i - 1),
                         s_m_exp, p)

aggregateSign(par, partialSigsWithAdmins) ==
    LET allIDs == [i \in 1..Len(partialSigsWithAdmins) |->
                      partialSigsWithAdmins[i].adminId]
    IN  [h |-> partialSigsWithAdmins[1].sig.h,
         s |-> aggregateSign_loop(par, partialSigsWithAdmins, allIDs,
                                  Len(partialSigsWithAdmins))]

(***************************************************************************)
(* provecredential.cpp, kor.cpp, checkkorverify.cpp, pairinginverify.cpp   *)
(***************************************************************************)
\* proveCredential with s'' formed as s^r' * h^r, from the h of the aggregate.
proveCredential_aggH(par, aggSig, mvk, didStr, o, r, r_prime) ==
    LET p == par.prime_order
        didInt == didStringToMpz(didStr, p)
        h_dbl == element_pow_zn(aggSig.h, r_prime, p)
        s_dbl == element_mul(element_pow_zn(aggSig.s, r_prime, p),
                             element_pow_zn(aggSig.h, r, p), p)
        k == element_mul(element_mul(mvk.alpha2, element_pow_zn(mvk.beta2, didInt, p), p),
                         element_pow_zn(par.g2, r, p), p)
    IN  [sigmaRnd |-> [h |-> h_dbl, s |-> s_dbl],
         k |-> k, r |-> r, c |-> 0, s1 |-> 0, s2 |-> 0, s3 |-> 0]

\* proveCredential; r, r_prime are its two element_random draws.  The fields
\* c, s1, s2, s3 are initialised (element_init_Zr: zero) and not set.
proveCredential(par, aggSig, mvk, didStr, o, r, r_prime) ==
    LET p == par.prime_order
        didInt == didStringToMpz(didStr, p)
        h_dbl == element_pow_zn(aggSig.h, r_prime, p)
        s_dbl == element_mul(element_pow_zn(aggSig.s, r_prime, p),
                             element_pow_zn(h_dbl, r, p), p)
        k == element_mul(element_mul(mvk.alpha2, element_pow_zn(mvk.beta2, didInt, p), p),
                         element_pow_zn(par.g2, r, p), p)
    IN  [sigmaRnd |-> [h |-> h_dbl, s |-> s_dbl],
         k |-> k, r |-> r, c |-> 0, s1 |-> 0, s2 |-> 0, s3 |-> 0]

\* k' formed as g2^r1 * beta2^r2, without the factor alpha2.
generateKoRProof_noAlpha(par, h, k, r, com, alpha2, beta2, did_int, o, r1, r2, r3) ==
    LET p == par.prime_order
        k_prime == element_mul(element_pow_zn(par.g2, r1, p),
                               element_pow_zn(beta2, r2, p), p)
        com_prime == element_mul(element_pow_zn(par.g1, r3, p),
                                 element_pow_zn(h, r2, p), p)
        c == hashToZr(<<par.g1, par.g2, h, com, com_prime, k, k_prime>>, p)
    IN  [c |-> c,
         s1 |-> Zr_sub(r1, Zr_mul(c, r, p), p),
         s2 |-> Zr_sub(r2, Zr_mul(c, element_set_mpz(did_int, p), p), p),
         s3 |-> Zr_sub(r3, Zr_mul(c, element_set_mpz(o, p), p), p)]

\* generateKoRProof; r1, r2, r3 are its three element_random draws.
generateKoRProof(par, h, k, r, com, alpha2, beta2, did_int, o, r1, r2, r3) ==
    LET p == par.prime_order
        k_prime == element_mul(element_mul(element_pow_zn(par.g2, r1, p), alpha2, p),
                               element_pow_zn(beta2, r2, p), p)
        com_prime == element_mul(element_pow_zn(par.g1, r3, p),
                                 element_pow_zn(h, r2, p), p)
        c == hashToZr(<<par.g1, par.g2, h, com, com_prime, k, k_prime>>, p)
    IN  [c |-> c,
         s1 |-> Zr_sub(r1, Zr_mul(c, r, p), p),
         s2 |-> Zr_sub(r2, Zr_mul(c, element_set_mpz(did_int, p), p), p),
         s3 |-> Zr_sub(r3, Zr_mul(c, element_set_mpz(o, p), p), p)]

\* stringToElement (kor.cpp:49) and stringToElementG1 (checkkorverify.cpp:55)
stringToElement(str) == element_from_bytes(hexToBytes(str))

\* com'' formed as h^s2 * com^c, without the factor g1^s3.
checkKoRVerify_toHash_noS3(par, proveRes, mvk, com_str, h_agg) ==
    LET p == par.prime_order
        com_elem == stringToElement(com_str)
        one_minus_c == Zr_sub(1, proveRes.c, p)
        k_prime_prime ==
            element_mul(
                element_mul(
                    element_mul(element_pow_zn(par.g2, proveRes.s1, p),
                                element_pow_zn(mvk.alpha2, one_minus_c, p), p),
                    element_pow_zn(proveRes.k, proveRes.c, p), p),
                element_pow_zn(mvk.beta2, proveRes.s2, p), p)
        com_prime_prime ==
            element_mul(element_pow_zn(h_agg, proveRes.s2, p),
                        element_pow_zn(com_elem, proveRes.c, p), p)
    IN  <<par.g1, par.g2, h_agg, com_elem, com_prime_prime, proveRes.k, k_prime_prime>>

\* The seven elements checkKoRVerify hashes, in order.
checkKoRVerify_toHash(par, proveRes, mvk, com_str, h_agg) ==
    LET p == par.prime_order
        com_elem == stringToElement(com_str)
        one_minus_c == Zr_sub(1, proveRes.c, p)
        k_prime_prime ==
            element_mul(
                element_mul(
                    element_mul(element_pow_zn(par.g2, proveRes.s1, p),
                                element_pow_zn(mvk.alpha2, one_minus_c, p), p),
                    element_pow_zn(proveRes.k, proveRes.c, p), p),
                element_pow_zn(mvk.beta2, proveRes.s2, p), p)
        com_prime_prime ==
            element_mul(
                element_mul(element_pow_zn(par.g1, proveRes.s3, p),
                            element_pow_zn(h_agg, proveRes.s2, p), p),
                element_pow_zn(com_elem, proveRes.c, p), p)
    IN  <<par.g1, par.g2, h_agg, com_elem, com_prime_prime, proveRes.k, k_prime_prime>>

checkKoRVerify(par, proveRes, mvk, com_str, h_agg) ==
    hashToZr(checkKoRVerify_toHash(par, proveRes, mvk, com_str, h_agg),
             par.prime_order) = proveRes.c

pairingCheck(par, pOut) ==
    pairing_apply(pOut.sigmaRnd.h, pOut.k, par.prime_order)
        = pairing_apply(pOut.sigmaRnd.s, par.g2, par.prime_order)

(***************************************************************************)
(* Random sources.  std::mt19937_64 (keygen, didgen) and PBC's             *)
(* element_random are streams fixed by their seed; a stream is written as  *)
(* its state, and the n-th draw is the state after n steps.                *)
(***************************************************************************)
rng_next(s) == (s * 5 + 3) % 256

RECURSIVE rng_at(_, _)
rng_at(s, n) == IF n = 0 THEN s ELSE rng_next(rng_at(s, n - 1))

rng_seed(seed) == (seed * 37 + 11) % 256

\* random_mpz_modp (keygen.cpp:10, keygen_parallel_backup.cpp:9, didgen.cpp:9):
\* the n-th scalar drawn from generator state s.
random_mpz_modp(s, n, p) == rng_at(s, n) % p

\* element_random on Zr and on G1/G2 (a generator: never the identity).
element_random_Zr(s, n, p) == rng_at(s, n) % p
element_random_G(s, n, p) == 1 + (rng_at(s, n) % (p - 1))

\* setupParams (setup.cpp:6): g1, h1, g2 are the first three draws.
setupParams(p, s) ==
    [prime_order |-> p,
     g1 |-> element_random_G(s, 1, p),
     h1 |-> element_random_G(s, 2, p),
     g2 |-> element_random_G(s, 3, p)]

(***************************************************************************)
(* keygen_parallel_backup.cpp                                              *)
(***************************************************************************)
\* randomPolynomial(poly, t, p): t coefficients, drawn after `skip` earlier
\* draws of the same static generator.
randomPolynomial(s, skip, t, p) == [i \in 1..t |-> random_mpz_modp(s, skip + i, p)]

\* evalPolynomial / evalPolynomial_ptr (keygen.cpp:32).
RECURSIVE evalPolynomial_loop(_, _, _, _)
evalPolynomial_loop(poly, k, xValue, p) ==
    IF k = 0 THEN [result |-> 0, xPow |-> 1 % p]
    ELSE LET prev == evalPolynomial_loop(poly, k - 1, xValue, p)
         IN  [result |-> (prev.result + poly[k] * prev.xPow) % p,
              xPow |-> (prev.xPow * xValue) % p]

evalPolynomial(poly, xValue, p) == evalPolynomial_loop(poly, Len(poly), xValue, p).result

\* keygen(params, t, ne); s is the state of the static generator.
keygen(par, t, ne, s) ==
    LET p == par.prime_order
        vPoly == randomPolynomial(s, 0, t, p)
        wPoly == randomPolynomial(s, t, t, p)
        x == evalPolynomial(vPoly, 0, p)
        y == evalPolynomial(wPoly, 0, p)
        eaKey(m) ==
            LET xm == evalPolynomial(vPoly, m, p)
                ym == evalPolynomial(wPoly, m, p)
            IN  [sgk1 |-> xm, sgk2 |-> ym,
                 vkm1 |-> element_pow_zn(par.g2, xm, p),
                 vkm2 |-> element_pow_zn(par.g2, ym, p),
                 vkm3 |-> element_pow_zn(par.g1, ym, p)]
    IN  [mvk |-> [alpha2 |-> element_pow_zn(par.g2, x, p),
                  beta2 |-> element_pow_zn(par.g2, y, p),
                  beta1 |-> element_pow_zn(par.g1, y, p)],
         eaKeys |-> [m \in 1..ne |-> eaKey(m)]]

(***************************************************************************)
(* didgen.cpp                                                              *)
(***************************************************************************)
\* mpz_get_str(x, 10): decimal digits of a scalar below 100.
DecimalDigits(x) == IF x < 10 THEN <<x>> ELSE <<x \div 10, x % 10>>

\* sha512_hex: the digest as a hex string (two digits in the scaled model).
sha512_hex(input) == LET d == SHA512(input) % 256 IN <<d \div 16, d % 16>>

\* createDID(params, userID); s is the state of the thread's generator.
createDID(par, userID, s) ==
    LET x == random_mpz_modp(s, 1, par.prime_order)
    IN  [x |-> x, did |-> sha512_hex(userID \o DecimalDigits(x))]


(***************************************************************************)
(* Specification SpecLagrange: one call of computeLagrangeCoefficient on   *)
(* a list of pairwise distinct admin IDs.                                  *)
(***************************************************************************)
DistinctIDLists ==
    UNION {{s \in [1..n -> 0..MaxAdminId] :
               \A i, j \in 1..n : i # j => s[i] # s[j]} : n \in 1..MaxIDs}

InitLagrange ==
    /\ \E p \in PrimeOrders : params = [prime_order |-> p, g1 |-> 1, h1 |-> 2, g2 |-> 3]
    /\ pc = "call"
    /\ \E ids \in DistinctIDLists : \E k \in 1..Len(ids) :
           lag = [allIDs |-> ids, idx |-> k, outCoeff |-> 0]
    /\ dkg = Idle
    /\ run = Idle
    /\ shr = Idle
    /\ kor = Idle
    /\ sgn = Idle
    /\ prs = Idle
    /\ agg = Idle
    /\ cli = Idle
    /\ wasm = Idle
    /\ sha = Idle
    /\ thr = Idle

CallLagrange ==
    /\ pc = "call"
    /\ lag' = [lag EXCEPT !.outCoeff =
                  computeLagrangeCoefficient(lag.allIDs, lag.idx, params.prime_order)]
    /\ pc' = "returned"
    /\ UNCHANGED <<params, dkg, run, shr, kor, sgn, prs, agg, cli, wasm, sha, thr>>

NextLagrange == CallLagrange

SpecLagrange == InitLagrange /\ [][NextLagrange]_vars

\* C2: for every non-empty list of pairwise distinct admin IDs and every
\* position in it, computeLagrangeCoefficient returns the closed-form
\* coefficient, whatever the size of the list.
C2_LagrangeIsClosedForm ==
    pc = "returned" =>
        lag.outCoeff = ClosedFormLagrange(lag.allIDs, lag.idx, params.prime_order)


\* C18: for a prime p > 5, a list of two distinct shifted IDs out of {1, 2, 3}
\* or of three distinct shifted IDs out of {1, .., 5}, and each member of the
\* list, computeLagrangeCoefficient sets the closed-form coefficient modulo p.
C18_TableMatchesClosedForm ==
    (/\ pc = "returned"
     /\ params.prime_order > 5
     /\ \/ Len(lag.allIDs) = 2 /\ SeqToSet(lag.allIDs) \subseteq 0..2
        \/ Len(lag.allIDs) = 3 /\ SeqToSet(lag.allIDs) \subseteq 0..4)
        => lag.outCoeff = ClosedFormLagrange(lag.allIDs, lag.idx, params.prime_order)

C18_Witness ==
    /\ pc = "returned"
    /\ params.prime_order % 6 = 5
    /\ SeqToSet(lag.allIDs) = {0, 1, 4}
    /\ lag.allIDs[lag.idx] = 4
    /\ lag.outCoeff = (params.prime_order + 1) \div 6
    /\ lag.outCoeff = ClosedFormLagrange(lag.allIDs, lag.idx, params.prime_order)


(***************************************************************************)
(* Specification SpecIssue: main() of main_parallel_backup.cpp for one     *)
(* voter, from setup to the total verification.                            *)
(***************************************************************************)
None == [none |-> TRUE]

\* The first t entries of a shuffled 0..ne-1 (main_parallel_backup.cpp:136-146).
ShuffledAdminIds(ne, t) ==
    {a \in [1..t -> 0..(ne - 1)] : \A i, j \in 1..t : i # j => a[i] # a[j]}

InitIssue ==
    /\ \E p \in IssuePrimeOrders, seed \in 0..MaxSeed, ne \in 1..MaxEA :
         \E t \in 1..ne :
           /\ params = setupParams(p, rng_seed(seed))
           /\ run = [ne |-> ne, t |-> t,
                     pbc |-> rng_at(rng_seed(seed), 3),
                     keyOut |-> None, did |-> None, prepared |-> None,
                     tasks |-> <<>>, signatures |-> <<>>,
                     unblindResultsWithAdmin |-> <<>>,
                     aggregate |-> None, prove |-> None,
                     pairing_ok |-> FALSE, kor_ok |-> FALSE,
                     allVerified |-> FALSE, threw |-> ""]
    /\ pc = "keygen"
    /\ lag = Idle
    /\ dkg = Idle
    /\ shr = Idle
    /\ kor = Idle
    /\ sgn = Idle
    /\ prs = Idle
    /\ agg = Idle
    /\ cli = Idle
    /\ wasm = Idle
    /\ sha = Idle
    /\ thr = Idle

\* main_parallel_backup.cpp:85
KeyGen ==
    /\ pc = "keygen"
    /\ \E seed \in 0..MaxSeed :
         run' = [run EXCEPT !.keyOut = keygen(params, run.t, run.ne, rng_seed(seed))]
    /\ pc' = "didgen"
    /\ UNCHANGED <<params, lag, dkg, shr, kor, sgn, prs, agg, cli, wasm, sha, thr>>

\* main_parallel_backup.cpp:90-107
CreateDID ==
    /\ pc = "didgen"
    /\ \E userID \in VoterIDs, seed \in 0..MaxSeed :
         run' = [run EXCEPT !.did = createDID(params, userID, rng_seed(seed))]
    /\ pc' = "prepare"
    /\ UNCHANGED <<params, lag, dkg, shr, kor, sgn, prs, agg, cli, wasm, sha, thr>>

\* main_parallel_backup.cpp:117-119
PrepareBlindSign ==
    /\ pc = "prepare"
    /\ LET p == params.prime_order
           d(n) == element_random_Zr(run.pbc, n, p)
       IN  run' = [run EXCEPT
                     !.prepared = prepareBlindSign(params, run.did.did,
                                                   d(1), d(2), d(3), d(4), d(5)),
                     !.pbc = rng_at(run.pbc, 5)]
    /\ pc' = "dispatch"
    /\ UNCHANGED <<params, lag, dkg, shr, kor, sgn, prs, agg, cli, wasm, sha, thr>>

\* main_parallel_backup.cpp:129-147
DispatchSignTasks ==
    /\ pc = "dispatch"
    /\ \E adminIndices \in ShuffledAdminIds(run.ne, run.t) :
         run' = [run EXCEPT
                   !.tasks = adminIndices,
                   !.signatures = [j \in 1..run.t |-> None],
                   !.unblindResultsWithAdmin = [j \in 1..run.t |-> None]]
    /\ pc' = "blindsign"
    /\ UNCHANGED <<params, lag, dkg, shr, kor, sgn, prs, agg, cli, wasm, sha, thr>>

\* The task signing with the key of the EA at the task's slot, not of the EA
\* the task names.
BlindSignTask_keyOfSlot(j) ==
    /\ pc = "blindsign"
    /\ run.signatures[j] = None
    /\ LET aId == run.tasks[j]
           sig == blindSign(params, run.prepared,
                            run.keyOut.eaKeys[j].sgk1,
                            run.keyOut.eaKeys[j].sgk2, aId, 0)
       IN  IF sig.threw # ""
             THEN /\ run' = [run EXCEPT !.threw = sig.threw]
                  /\ pc' = "terminated"
             ELSE /\ run' = [run EXCEPT !.signatures[j] = sig]
                  /\ pc' = IF \A k \in 1..run.t : k # j => run.signatures[k] # None
                             THEN "unblind" ELSE "blindsign"
    /\ UNCHANGED <<params, lag, dkg, shr, kor, sgn, prs, agg, cli, wasm, sha, thr>>

\* One task of the parallel_for of main_parallel_backup.cpp:151-166.
BlindSignTask(j) ==
    /\ pc = "blindsign"
    /\ run.signatures[j] = None
    /\ LET aId == run.tasks[j]
           sig == blindSign(params, run.prepared,
                            run.keyOut.eaKeys[aId + 1].sgk1,
                            run.keyOut.eaKeys[aId + 1].sgk2, aId, 0)
       IN  IF sig.threw # ""
             THEN /\ run' = [run EXCEPT !.threw = sig.threw]
                  /\ pc' = "terminated"
             ELSE /\ run' = [run EXCEPT !.signatures[j] = sig]
                  /\ pc' = IF \A k \in 1..run.t : k # j => run.signatures[k] # None
                             THEN "unblind" ELSE "blindsign"
    /\ UNCHANGED <<params, lag, dkg, shr, kor, sgn, prs, agg, cli, wasm, sha, thr>>

\* One task of the nested parallel_for of main_parallel_backup.cpp:184-195.
UnblindTask(j) ==
    /\ pc = "unblind"
    /\ run.unblindResultsWithAdmin[j] = None
    /\ LET adminId == run.signatures[j].adminId
           usig == unblindSign(params, run.prepared, run.signatures[j],
                               run.keyOut.eaKeys[adminId + 1], run.did.did)
       IN  IF usig.threw # ""
             THEN /\ run' = [run EXCEPT !.threw = usig.threw]
                  /\ pc' = "terminated"
             ELSE /\ run' = [run EXCEPT !.unblindResultsWithAdmin[j] =
                                            [adminId |-> adminId, sig |-> usig]]
                  /\ pc' = IF \A k \in 1..run.t :
                                  k # j => run.unblindResultsWithAdmin[k] # None
                             THEN "aggregate" ELSE "unblind"
    /\ UNCHANGED <<params, lag, dkg, shr, kor, sgn, prs, agg, cli, wasm, sha, thr>>

\* main_parallel_backup.cpp:210-213
AggregateSign ==
    /\ pc = "aggregate"
    /\ run' = [run EXCEPT !.aggregate = aggregateSign(params, run.unblindResultsWithAdmin)]
    /\ pc' = "prove"
    /\ UNCHANGED <<params, lag, dkg, shr, kor, sgn, prs, agg, cli, wasm, sha, thr>>

\* main_parallel_backup.cpp:222-225
ProveCredential ==
    /\ pc = "prove"
    /\ LET p == params.prime_order
       IN  run' = [run EXCEPT
                     !.prove = proveCredential(params, run.aggregate, run.keyOut.mvk,
                                               run.did.did, run.prepared.o,
                                               element_random_Zr(run.pbc, 1, p),
                                               element_random_Zr(run.pbc, 2, p)),
                     !.pbc = rng_at(run.pbc, 2)]
    /\ pc' = "kor"
    /\ UNCHANGED <<params, lag, dkg, shr, kor, sgn, prs, agg, cli, wasm, sha, thr>>

\* main_parallel_backup.cpp:233-276: the proof is made over the aggregate h
\* and copied into the ProveCredentialOutput.
GenerateKoR ==
    /\ pc = "kor"
    /\ LET p == params.prime_order
           did_int == mpz_set_str16(run.did.did) % p
           com_elem == stringToElement(run.prepared.com_str)
           korProof == generateKoRProof(params, run.aggregate.h, run.prove.k,
                                        run.prove.r, com_elem,
                                        run.keyOut.mvk.alpha2, run.keyOut.mvk.beta2,
                                        did_int, run.prepared.o,
                                        element_random_Zr(run.pbc, 1, p),
                                        element_random_Zr(run.pbc, 2, p),
                                        element_random_Zr(run.pbc, 3, p))
       IN  run' = [run EXCEPT
                     !.prove = [@ EXCEPT !.c = korProof.c, !.s1 = korProof.s1,
                                         !.s2 = korProof.s2, !.s3 = korProof.s3],
                     !.pbc = rng_at(run.pbc, 3)]
    /\ pc' = "pairingcheck"
    /\ UNCHANGED <<params, lag, dkg, shr, kor, sgn, prs, agg, cli, wasm, sha, thr>>

\* main_parallel_backup.cpp:285-294
PairingCheckPhase ==
    /\ pc = "pairingcheck"
    /\ run' = [run EXCEPT !.pairing_ok = pairingCheck(params, run.prove)]
    /\ pc' = "korverify"
    /\ UNCHANGED <<params, lag, dkg, shr, kor, sgn, prs, agg, cli, wasm, sha, thr>>

\* main_parallel_backup.cpp:303-318
KoRVerifyPhase ==
    /\ pc = "korverify"
    /\ run' = [run EXCEPT !.kor_ok = checkKoRVerify(params, run.prove, run.keyOut.mvk,
                                                    run.prepared.com_str,
                                                    run.aggregate.h)]
    /\ pc' = "totalverify"
    /\ UNCHANGED <<params, lag, dkg, shr, kor, sgn, prs, agg, cli, wasm, sha, thr>>

\* main_parallel_backup.cpp:327-352
TotalVerification ==
    /\ pc = "totalverify"
    /\ LET pairing_ok == pairingCheck(params, run.prove)
           kor_ok == checkKoRVerify(params, run.prove, run.keyOut.mvk,
                                    run.prepared.com_str, run.aggregate.h)
           verified == pairing_ok /\ kor_ok
       IN  /\ run' = [run EXCEPT !.allVerified = verified,
                                 !.threw = IF verified THEN "" ELSE "Verification failed"]
           /\ pc' = IF verified THEN "done" ELSE "terminated"
    /\ UNCHANGED <<params, lag, dkg, shr, kor, sgn, prs, agg, cli, wasm, sha, thr>>

NextIssue ==
    \/ KeyGen
    \/ CreateDID
    \/ PrepareBlindSign
    \/ DispatchSignTasks
    \/ \E j \in 1..MaxEA : j <= run.t /\ BlindSignTask(j)
    \/ \E j \in 1..MaxEA : j <= run.t /\ UnblindTask(j)
    \/ AggregateSign
    \/ ProveCredential
    \/ GenerateKoR
    \/ PairingCheckPhase
    \/ KoRVerifyPhase
    \/ TotalVerification

SpecIssue == InitIssue /\ [][NextIssue]_vars

\* C1: an honest run of the pipeline, for every 1 <= t <= n and every choice
\* of t distinct EAs, ends with pairingCheck and checkKoRVerify both true.
C1_IssuanceRoundTrip ==
    pc \in {"done", "terminated"} =>
        /\ run.threw = ""
        /\ run.pairing_ok
        /\ run.kor_ok
        /\ run.allVerified


(***************************************************************************)
(* keygen.cpp: Pedersen DKG primitives.                                    *)
(***************************************************************************)
\* randomPolynomial_ptr(poly, t, p): t draws of the static generator after
\* `skip` earlier ones.
randomPolynomial_ptr(s, skip, t, p) == [i \in 1..t |-> random_mpz_modp(s, skip + i, p)]

RECURSIVE evalPolynomial_ptr_loop(_, _, _, _)
evalPolynomial_ptr_loop(poly, k, xValue, p) ==
    IF k = 0 THEN [result |-> 0, xPow |-> 1]
    ELSE LET prev == evalPolynomial_ptr_loop(poly, k - 1, xValue, p)
         IN  [result |-> (prev.result + poly[k] * prev.xPow) % p,
              xPow |-> (prev.xPow * xValue) % p]

\* The loop started at k = 1: the constant coefficient is left out.
evalPolynomial_ptr_skipConstant(poly, poly_size, xValue, p) ==
    (evalPolynomial_ptr_loop(poly, poly_size, xValue, p).result - poly[1]) % p

\* evalPolynomial_ptr(result, poly, poly_size, xValue, p)
evalPolynomial_ptr(poly, poly_size, xValue, p) ==
    evalPolynomial_ptr_loop(poly, poly_size, xValue, p).result

\* generateCommitments(commitments, polynomials, params)
generateCommitments(polynomials, par) ==
    LET t == polynomials.size
        p == par.prime_order
    IN  [size |-> t,
         V_x |-> [j \in 1..t |->
                    element_pow_zn(par.g2, element_set_mpz(polynomials.F_coeffs[j], p), p)],
         V_y |-> [j \in 1..t |->
                    element_pow_zn(par.g2, element_set_mpz(polynomials.G_coeffs[j], p), p)],
         V_y_prime |-> [j \in 1..t |->
                    element_pow_zn(par.g1, element_set_mpz(polynomials.G_coeffs[j], p), p)]]

mpz_pow_ui(b, e) == IF e = 0 THEN 1 ELSE b ^ e

\* prod_{j = 0}^{t-1} V[j]^(i^j), the right-hand side of each equation of
\* verifyShare; V is indexed from 1 here.
RECURSIVE verifyShare_rhs(_, _, _, _)
verifyShare_rhs(V, i, t, p) ==
    IF t = 0 THEN G_identity
    ELSE element_mul(verifyShare_rhs(V, i, t - 1, p),
                     element_pow_zn(V[t], mpz_pow_ui(i, t - 1), p), p)

\* The third equation (g1^G = prod V_y_prime^(i^j)) left out of the verdict.
verifyShare_noGPrime(share, commitments, i, par) ==
    LET t == commitments.size
        p == par.prime_order
    IN  /\ element_pow_zn(par.g2, element_set_mpz(share.F_l_i, p), p)
             = verifyShare_rhs(commitments.V_x, i, t, p)
        /\ element_pow_zn(par.g2, element_set_mpz(share.G_l_i, p), p)
             = verifyShare_rhs(commitments.V_y, i, t, p)

\* verifyShare(share, commitments, i, params)
verifyShare(share, commitments, i, par) ==
    LET t == commitments.size
        p == par.prime_order
        valid_F == element_pow_zn(par.g2, element_set_mpz(share.F_l_i, p), p)
                     = verifyShare_rhs(commitments.V_x, i, t, p)
        valid_G == element_pow_zn(par.g2, element_set_mpz(share.G_l_i, p), p)
                     = verifyShare_rhs(commitments.V_y, i, t, p)
        valid_G_prime == element_pow_zn(par.g1, element_set_mpz(share.G_l_i, p), p)
                     = verifyShare_rhs(commitments.V_y_prime, i, t, p)
    IN  valid_F /\ valid_G /\ valid_G_prime


(***************************************************************************)
(* dkg_cli.cpp: the commands.  args holds argv[2], argv[3], ...; every     *)
(* argument is a string (a sequence of digits).  A command returns the     *)
(* fields of the JSON object it prints, or its error and exit code.        *)
(***************************************************************************)
argvAt(args, k) == args[k - 1]
argc(args) == Len(args) + 2

\* std::stoi on a decimal string.
\* The value is that of the longest prefix of decimal digits; what follows
\* the first character that is not a digit is ignored.
RECURSIVE stoi(_)
stoi(str) ==
    IF str = <<>> THEN 0
    ELSE IF \E i \in 1..Len(str) : str[i] > 9 THEN stoi(SubSeq(str, 1, Len(str) - 1))
    ELSE 10 * stoi(SubSeq(str, 1, Len(str) - 1)) + str[Len(str)]

\* std::stoi throws std::invalid_argument when no digit starts the string.
stoi_throws(str) == str = <<>> \/ str[1] > 9

\* elementToHex: two hex digits per byte of element_to_bytes.
elementToHex(e) == <<e \div 16, e % 16>>

\* hexToElement: strtol on every two characters, then element_from_bytes.
RECURSIVE hexToElement_buf(_)
hexToElement_buf(hex) ==
    IF hex = <<>> THEN <<>>
    ELSE IF Len(hex) = 1 THEN <<hex[1]>>
    ELSE <<16 * hex[1] + hex[2]>> \o hexToElement_buf(SubSeq(hex, 3, Len(hex)))

hexToElement(hex) == element_from_bytes(hexToElement_buf(hex))

\* mpzToHex: mpz_get_str in base 16, no leading zeros (values below 256).
mpzToHex(z) == IF z < 16 THEN <<z>> ELSE <<z \div 16, z % 16>>

hexToMpz(hex) == mpz_set_str16(hex)

DkgError(msg) == [exit |-> 1, error |-> msg]

\* generate_polynomials threshold; s is the state of the process's generator.
generate_polynomials(par, args, s) ==
    IF argc(args) < 3 THEN DkgError("Missing threshold parameter")
    ELSE LET threshold == stoi(argvAt(args, 2))
             poly_size == threshold + 1
             p == par.prime_order
             polynomials == [size |-> poly_size,
                             F_coeffs |-> randomPolynomial_ptr(s, 0, poly_size, p),
                             G_coeffs |-> randomPolynomial_ptr(s, poly_size, poly_size, p)]
             commitments == generateCommitments(polynomials, par)
         IN  [exit |-> 0,
              F_coeffs |-> [i \in 1..poly_size |-> mpzToHex(polynomials.F_coeffs[i])],
              G_coeffs |-> [i \in 1..poly_size |-> mpzToHex(polynomials.G_coeffs[i])],
              V_x |-> [i \in 1..poly_size |-> elementToHex(commitments.V_x[i])],
              V_y |-> [i \in 1..poly_size |-> elementToHex(commitments.V_y[i])],
              V_y_prime |-> [i \in 1..poly_size |-> elementToHex(commitments.V_y_prime[i])]]

\* evaluate_polynomial threshold receiver_index F_coeff_0 .. G_coeff_0 ..
evaluate_polynomial(par, args) ==
    IF argc(args) < 4 THEN DkgError("Missing parameters")
    ELSE LET threshold == stoi(argvAt(args, 2))
             receiver_index == stoi(argvAt(args, 3))
             poly_size == threshold + 1
             p == par.prime_order
             F_coeffs == [i \in 1..poly_size |-> hexToMpz(argvAt(args, 4 + (i - 1)))]
             G_coeffs == [i \in 1..poly_size |->
                             hexToMpz(argvAt(args, 4 + poly_size + (i - 1)))]
         IN  IF argc(args) < 4 + poly_size * 2 THEN DkgError("Not enough coefficients")
             ELSE [exit |-> 0,
                   F |-> mpzToHex(evalPolynomial_ptr(F_coeffs, poly_size, receiver_index, p)),
                   G |-> mpzToHex(evalPolynomial_ptr(G_coeffs, poly_size, receiver_index, p))]

\* verify_share threshold my_index F_share G_share V_x_0 .. V_y_0 .. V_y_prime_0 ..
verify_share(par, args) ==
    IF argc(args) < 5 THEN DkgError("Missing parameters")
    ELSE LET threshold == stoi(argvAt(args, 2))
             my_index == stoi(argvAt(args, 3))
             poly_size == threshold + 1
             share == [F_l_i |-> hexToMpz(argvAt(args, 4)),
                       G_l_i |-> hexToMpz(argvAt(args, 5))]
             commitments ==
                 [size |-> poly_size,
                  V_x |-> [i \in 1..poly_size |-> hexToElement(argvAt(args, 6 + (i - 1)))],
                  V_y |-> [i \in 1..poly_size |->
                              hexToElement(argvAt(args, 6 + poly_size + (i - 1)))],
                  V_y_prime |-> [i \in 1..poly_size |->
                              hexToElement(argvAt(args, 6 + 2 * poly_size + (i - 1)))]]
         IN  IF argc(args) < 4 + 2 + poly_size * 3
                 THEN DkgError("Not enough commitment data")
             ELSE [exit |-> 0, valid |-> verifyShare(share, commitments, my_index, par)]

\* The product over the qualified trustees of entry V[0] of one of their
\* commitment vectors: the entries at argv[first], argv[first + stride], ...
RECURSIVE aggregate_mvk_loop(_, _, _, _, _)
aggregate_mvk_loop(args, first, stride, num_qualified, p) ==
    IF num_qualified = 0 THEN G_identity
    ELSE element_mul(aggregate_mvk_loop(args, first, stride, num_qualified - 1, p),
                     hexToElement(argvAt(args, first + (num_qualified - 1) * stride)), p)

\* aggregate_mvk threshold num_qualified qualified_indices.. then, for each
\* qualified trustee, V_x_0.. V_y_0.. V_y_prime_0..
aggregate_mvk(par, args) ==
    IF argc(args) < 4 THEN DkgError("Missing parameters")
    ELSE LET threshold == stoi(argvAt(args, 2))
             num_qualified == stoi(argvAt(args, 3))
             poly_size == threshold + 1
             p == par.prime_order
             stride == poly_size * 3
             V_x_0 == 4 + num_qualified
             V_y_0 == 4 + num_qualified + poly_size
             V_y_prime_0 == 4 + num_qualified + 2 * poly_size
         IN  IF argc(args) < 4 + num_qualified + num_qualified * poly_size * 3
                 THEN DkgError("Not enough commitment data for aggregation")
             ELSE [exit |-> 0,
                   alpha2 |-> elementToHex(
                                 aggregate_mvk_loop(args, V_x_0, stride, num_qualified, p)),
                   beta2 |-> elementToHex(
                                 aggregate_mvk_loop(args, V_y_0, stride, num_qualified, p)),
                   beta1 |-> elementToHex(
                                 aggregate_mvk_loop(args, V_y_prime_0, stride, num_qualified, p))]

\* The sum modulo p of the shares at argv[first], argv[first + 2], ...
RECURSIVE compute_signing_key_loop(_, _, _, _)
compute_signing_key_loop(args, first, num_qualified, p) ==
    IF num_qualified = 0 THEN 0
    ELSE (compute_signing_key_loop(args, first, num_qualified - 1, p)
            + hexToMpz(argvAt(args, first + (num_qualified - 1) * 2))) % p

\* The loop bound one short: the last qualified trustee's share is left out.
compute_signing_key_dropLast(par, args) ==
    LET num_qualified == stoi(argvAt(args, 3))
        p == par.prime_order
    IN  [exit |-> 0,
         sgk1 |-> mpzToHex(compute_signing_key_loop(args, 5, num_qualified - 1, p)),
         sgk2 |-> mpzToHex(compute_signing_key_loop(args, 6, num_qualified - 1, p))]

\* compute_signing_key threshold num_qualified my_index F_share_1 G_share_1 ..
compute_signing_key(par, args) ==
    IF argc(args) < 5 THEN DkgError("Missing parameters")
    ELSE LET num_qualified == stoi(argvAt(args, 3))
             p == par.prime_order
         IN  IF argc(args) < 5 + num_qualified * 2 THEN DkgError("Not enough shares")
             ELSE [exit |-> 0,
                   sgk1 |-> mpzToHex(compute_signing_key_loop(args, 5, num_qualified, p)),
                   sgk2 |-> mpzToHex(compute_signing_key_loop(args, 6, num_qualified, p))]

\* prod_{q < num_qualified} prod_{j < threshold} V_q[j]^(my_index^j), where
\* V_q[j] is read at argv[5 + q * threshold * 3 + offset + j].
RECURSIVE compute_verification_keys_inner(_, _, _, _, _)
compute_verification_keys_inner(args, first, my_index, j, p) ==
    IF j = 0 THEN G_identity
    ELSE element_mul(compute_verification_keys_inner(args, first, my_index, j - 1, p),
                     element_pow_zn(hexToElement(argvAt(args, first + (j - 1))),
                                    mpz_pow_ui(my_index, j - 1), p), p)

RECURSIVE compute_verification_keys_loop(_, _, _, _, _, _)
compute_verification_keys_loop(args, offset, threshold, my_index, q, p) ==
    IF q = 0 THEN G_identity
    ELSE element_mul(
             compute_verification_keys_loop(args, offset, threshold, my_index, q - 1, p),
             compute_verification_keys_inner(args, 5 + (q - 1) * threshold * 3 + offset,
                                             my_index, threshold, p), p)

\* compute_verification_keys threshold num_qualified my_index + commitment arrays
compute_verification_keys(par, args) ==
    IF argc(args) < 5 THEN DkgError("Missing parameters")
    ELSE LET threshold == stoi(argvAt(args, 2))
             num_qualified == stoi(argvAt(args, 3))
             my_index == stoi(argvAt(args, 4))
             p == par.prime_order
             vk(offset) == elementToHex(compute_verification_keys_loop(
                               args, offset, threshold, my_index, num_qualified, p))
         IN  IF argc(args) < 5 + num_qualified * threshold * 3
                 THEN DkgError("Not enough commitment data")
             ELSE [exit |-> 0,
                   vk1 |-> vk(0),
                   vk2 |-> vk(threshold),
                   vk3 |-> vk(2 * threshold)]

(***************************************************************************)
(* Specification SpecShare: one dealer's polynomials, their commitments,   *)
(* the share for receiver i, and verifyShare on what the receiver is       *)
(* handed: the honest values, or values with one fault put in.             *)
(***************************************************************************)
SharePrimeOrders == {7, 11}

Min(a, b) == IF a < b THEN a ELSE b

\* The receiver index is an int; the group order has 256 bits, so the index
\* is positive and below the order.
ReceiverIndices(p) == 1..Min(MaxIndex, p - 1)

InitShare ==
    /\ \E p \in SharePrimeOrders, seed \in 0..MaxSeed :
           params = setupParams(p, rng_seed(seed))
    /\ \E size \in 1..MaxPolySize, seed \in 0..MaxPolySeed,
          i \in ReceiverIndices(params.prime_order) :
           shr = [polynomials |->
                      [size |-> size,
                       F_coeffs |-> randomPolynomial_ptr(rng_seed(seed), 0, size,
                                                         params.prime_order),
                       G_coeffs |-> randomPolynomial_ptr(rng_seed(seed), size, size,
                                                         params.prime_order)],
                  i |-> i,
                  commitments |-> None, share |-> None,
                  honest |-> None, fault |-> "none", valid |-> FALSE]
    /\ pc = "commit"
    /\ lag = Idle
    /\ dkg = Idle
    /\ run = Idle
    /\ kor = Idle
    /\ sgn = Idle
    /\ prs = Idle
    /\ agg = Idle
    /\ cli = Idle
    /\ wasm = Idle
    /\ sha = Idle
    /\ thr = Idle

ShareGenerateCommitments ==
    /\ pc = "commit"
    /\ shr' = [shr EXCEPT !.commitments = generateCommitments(shr.polynomials, params)]
    /\ pc' = "eval"
    /\ UNCHANGED <<params, lag, dkg, run, kor, sgn, prs, agg, cli, wasm, sha, thr>>

ShareEvaluate ==
    /\ pc = "eval"
    /\ LET p == params.prime_order
           share == [F_l_i |-> evalPolynomial_ptr(shr.polynomials.F_coeffs,
                                                  shr.polynomials.size, shr.i, p),
                     G_l_i |-> evalPolynomial_ptr(shr.polynomials.G_coeffs,
                                                  shr.polynomials.size, shr.i, p)]
       IN  shr' = [shr EXCEPT !.share = share,
                              !.honest = [share |-> share,
                                          commitments |-> shr.commitments]]
    /\ pc' = "deliver"
    /\ UNCHANGED <<params, lag, dkg, run, kor, sgn, prs, agg, cli, wasm, sha, thr>>

\* The share reaches the receiver with another F or G value (mpz values, not
\* reduced: a value may differ from the honest one by a multiple of p).
FaultInShare ==
    /\ pc = "deliver"
    /\ shr.fault = "none"
    /\ \E F \in 0..(2 * params.prime_order - 1), G \in 0..(params.prime_order - 1) :
         /\ <<F, G>> # <<shr.share.F_l_i, shr.share.G_l_i>>
         /\ shr' = [shr EXCEPT !.share = [F_l_i |-> F, G_l_i |-> G],
                               !.fault = "share"]
    /\ UNCHANGED <<params, pc, lag, dkg, run, kor, sgn, prs, agg, cli, wasm, sha, thr>>

\* One entry of one commitment vector reaches the receiver changed.
FaultInCommitment ==
    /\ pc = "deliver"
    /\ shr.fault = "none"
    /\ \E vec \in {"V_x", "V_y", "V_y_prime"}, j \in 1..MaxPolySize,
          v \in 0..(params.prime_order - 1) :
         /\ j <= shr.commitments.size
         /\ v # shr.commitments[vec][j]
         /\ shr' = [shr EXCEPT !.commitments[vec][j] = v, !.fault = vec]
    /\ UNCHANGED <<params, pc, lag, dkg, run, kor, sgn, prs, agg, cli, wasm, sha, thr>>

ShareVerify ==
    /\ pc = "deliver"
    /\ shr' = [shr EXCEPT !.valid = verifyShare(shr.share, shr.commitments, shr.i, params)]
    /\ pc' = "verified"
    /\ UNCHANGED <<params, lag, dkg, run, kor, sgn, prs, agg, cli, wasm, sha, thr>>

NextShare ==
    \/ ShareGenerateCommitments
    \/ ShareEvaluate
    \/ FaultInShare
    \/ FaultInCommitment
    \/ ShareVerify

SpecShare == InitShare /\ [][NextShare]_vars

\* C4: verifyShare returns true on the share computed by evalPolynomial_ptr
\* and the commitments computed by generateCommitments from the same
\* coefficients, for every receiver index i >= 1 and every polynomial size.
C4_VerifyShareSoundness ==
    (pc = "verified" /\ shr.fault = "none") => shr.valid

C4_Witness ==
    /\ pc = "verified"
    /\ shr.fault = "none"
    /\ shr.valid
    /\ shr.polynomials.size >= 3
    /\ shr.i >= 2
    /\ shr.polynomials.F_coeffs[3] # 0
    /\ shr.polynomials.G_coeffs[1] # 0

\* What the receiver was handed differs from the honest values: a share
\* different modulo p, or some entry of a commitment vector different.
ShareDiffers ==
    LET p == params.prime_order
    IN  \/ shr.share.F_l_i % p # shr.honest.share.F_l_i % p
        \/ shr.share.G_l_i % p # shr.honest.share.G_l_i % p
        \/ \E vec \in {"V_x", "V_y", "V_y_prime"} :
              shr.commitments[vec] # shr.honest.commitments[vec]

\* C5: verifyShare returns false whenever the F share or the G share differs
\* modulo p from the committed polynomial evaluated at i, or a single entry of
\* V_x, V_y or V_y_prime differs from the commitment to its coefficient.
C5_VerifyShareCompleteness ==
    (pc = "verified" /\ ShareDiffers) => ~shr.valid

C5_Witness ==
    /\ pc = "verified"
    /\ shr.fault = "V_y_prime"
    /\ ShareDiffers
    /\ shr.polynomials.size >= 2
    /\ shr.commitments["V_y_prime"][2] # shr.honest.commitments["V_y_prime"][2]
    /\ ~shr.valid


(***************************************************************************)
(* Specification SpecKoR: one issuance proof pi_s (prepareBlindSign, then  *)
(* CheckKoR) and one presentation proof pi_v (proveCredential,             *)
(* generateKoRProof, then checkKoRVerify) for a credential issued by a     *)
(* single EA; before either verifier runs, one field of the proof may be   *)
(* changed.                                                                *)
(***************************************************************************)
KorPrimeOrders == {5, 7}
KorDIDs == {<<0, 0>>, <<0, 3>>, <<12, 6>>}
KorFields == {"c", "s1", "s2", "s3"}

InitKoR ==
    /\ \E p \in KorPrimeOrders, seed \in 0..MaxSeed :
           params = setupParams(p, rng_seed(seed))
    /\ \E didStr \in KorDIDs, o \in 0..(params.prime_order - 1), seed \in 0..MaxKorSeed :
           kor = [didStr |-> didStr, o |-> o, pbc |-> rng_seed(seed),
                  prepared |-> None, pi_s |-> None, tamper_s |-> "none",
                  checked_s |-> FALSE, ok_s |-> FALSE,
                  mvk |-> None, aggSig |-> None,
                  prove |-> None, pi_v |-> None, tamper_v |-> "none",
                  checked_v |-> FALSE, ok_v |-> FALSE]
    /\ pc = "prepare"
    /\ lag = Idle
    /\ dkg = Idle
    /\ run = Idle
    /\ shr = Idle
    /\ sgn = Idle
    /\ prs = Idle
    /\ agg = Idle
    /\ cli = Idle
    /\ wasm = Idle
    /\ sha = Idle
    /\ thr = Idle

\* prepareBlindSign(params, did); o_i, r1, r2, r3 are draws of the stream.
KorPrepareBlindSign ==
    /\ pc = "prepare"
    /\ LET p == params.prime_order
           d(n) == element_random_Zr(kor.pbc, n, p)
           out == prepareBlindSign(params, kor.didStr, d(1), kor.o, d(2), d(3), d(4))
       IN  kor' = [kor EXCEPT !.prepared = out, !.pi_s = out.pi_s,
                              !.pbc = rng_at(kor.pbc, 4)]
    /\ pc' = "checkkor"
    /\ UNCHANGED <<params, lag, dkg, run, shr, sgn, prs, agg, cli, wasm, sha, thr>>

\* One of c, s1, s2, s3 of pi_s reaches the EA with another value of Zr.
KorTamperIssuance ==
    /\ pc = "checkkor"
    /\ kor.tamper_s = "none"
    /\ \E f \in KorFields, v \in 0..(params.prime_order - 1) :
         /\ v # kor.pi_s[f]
         /\ kor' = [kor EXCEPT !.pi_s[f] = v, !.tamper_s = f]
    /\ UNCHANGED <<params, pc, lag, dkg, run, shr, sgn, prs, agg, cli, wasm, sha, thr>>

\* CheckKoR as blindSign calls it (blindsign.cpp:93).
KorCheckKoR ==
    /\ pc = "checkkor"
    /\ LET ok == CheckKoR(params, kor.prepared.com, kor.prepared.comi,
                          kor.prepared.h, kor.pi_s)
       IN  /\ kor' = [kor EXCEPT !.checked_s = TRUE, !.ok_s = ok]
           /\ pc' = IF ok /\ kor.tamper_s = "none" THEN "issue" ELSE "done"
    /\ UNCHANGED <<params, lag, dkg, run, shr, sgn, prs, agg, cli, wasm, sha, thr>>

\* keygen(1, 1), blindSign, unblindSign and aggregateSign with one EA.
KorIssueCredential ==
    /\ pc = "issue"
    /\ \E seed \in 0..MaxSeed :
         LET keyOut == keygen(params, 1, 1, rng_seed(seed))
             sig == blindSign(params, kor.prepared, keyOut.eaKeys[1].sgk1,
                              keyOut.eaKeys[1].sgk2, 0, 0)
             usig == unblindSign(params, kor.prepared, sig, keyOut.eaKeys[1], kor.didStr)
         IN  /\ sig.threw = ""
             /\ usig.threw = ""
             /\ kor' = [kor EXCEPT
                          !.mvk = keyOut.mvk,
                          !.aggSig = aggregateSign(params, <<[adminId |-> 0, sig |-> usig]>>)]
    /\ pc' = "prove"
    /\ UNCHANGED <<params, lag, dkg, run, shr, sgn, prs, agg, cli, wasm, sha, thr>>

KorProveCredential ==
    /\ pc = "prove"
    /\ LET p == params.prime_order
       IN  kor' = [kor EXCEPT
                     !.prove = proveCredential(params, kor.aggSig, kor.mvk, kor.didStr,
                                               kor.prepared.o,
                                               element_random_Zr(kor.pbc, 1, p),
                                               element_random_Zr(kor.pbc, 2, p)),
                     !.pbc = rng_at(kor.pbc, 2)]
    /\ pc' = "korproof"
    /\ UNCHANGED <<params, lag, dkg, run, shr, sgn, prs, agg, cli, wasm, sha, thr>>

\* generateKoRProof as main() calls it (main_parallel_backup.cpp:233-276).
KorGenerateKoRProof ==
    /\ pc = "korproof"
    /\ LET p == params.prime_order
           korProof == generateKoRProof(params, kor.aggSig.h, kor.prove.k, kor.prove.r,
                                        stringToElement(kor.prepared.com_str),
                                        kor.mvk.alpha2, kor.mvk.beta2,
                                        mpz_set_str16(kor.didStr) % p, kor.prepared.o,
                                        element_random_Zr(kor.pbc, 1, p),
                                        element_random_Zr(kor.pbc, 2, p),
                                        element_random_Zr(kor.pbc, 3, p))
           withProof == [kor.prove EXCEPT !.c = korProof.c, !.s1 = korProof.s1,
                                          !.s2 = korProof.s2, !.s3 = korProof.s3]
       IN  kor' = [kor EXCEPT !.prove = withProof, !.pi_v = withProof,
                              !.pbc = rng_at(kor.pbc, 3)]
    /\ pc' = "verify"
    /\ UNCHANGED <<params, lag, dkg, run, shr, sgn, prs, agg, cli, wasm, sha, thr>>

\* One of c, s1, s2, s3 of pi_v reaches the verifier with another value of Zr.
KorTamperPresentation ==
    /\ pc = "verify"
    /\ kor.tamper_v = "none"
    /\ \E f \in KorFields, v \in 0..(params.prime_order - 1) :
         /\ v # kor.prove[f]
         /\ kor' = [kor EXCEPT !.prove[f] = v, !.tamper_v = f]
    /\ UNCHANGED <<params, pc, lag, dkg, run, shr, sgn, prs, agg, cli, wasm, sha, thr>>

KorCheckKoRVerify ==
    /\ pc = "verify"
    /\ kor' = [kor EXCEPT !.checked_v = TRUE,
                          !.ok_v = checkKoRVerify(params, kor.prove, kor.mvk,
                                                  kor.prepared.com_str, kor.aggSig.h)]
    /\ pc' = "done"
    /\ UNCHANGED <<params, lag, dkg, run, shr, sgn, prs, agg, cli, wasm, sha, thr>>

NextKoR ==
    \/ KorPrepareBlindSign
    \/ KorTamperIssuance
    \/ KorCheckKoR
    \/ KorIssueCredential
    \/ KorProveCredential
    \/ KorGenerateKoRProof
    \/ KorTamperPresentation
    \/ KorCheckKoRVerify

SpecKoR == InitKoR /\ [][NextKoR]_vars


\* C8: the proof pi_s returned by prepareBlindSign passes CheckKoR on the
\* (com, com_i, h) of the same output, for every DID and every o_i, o, r1, r2, r3.
C8_IssuanceKoRCompleteness ==
    (kor.checked_s /\ kor.tamper_s = "none") => kor.ok_s

C8_Witness ==
    /\ kor.checked_s
    /\ kor.tamper_s = "none"
    /\ kor.ok_s
    /\ kor.didStr = <<12, 6>>
    /\ kor.o # 0
    /\ kor.pi_s.c # 0
    /\ kor.pi_s.s2 # 0

\* C9: the proof returned by generateKoRProof for k = alpha2 * beta2^did * g2^r
\* and com = g1^o * h^did passes checkKoRVerify when the verifier is given the
\* same h, com, k and master verification key.
C9_PresentationKoRCompleteness ==
    (kor.checked_v /\ kor.tamper_v = "none") => kor.ok_v

C9_Witness ==
    /\ kor.checked_v
    /\ kor.tamper_v = "none"
    /\ kor.ok_v
    /\ kor.didStr = <<0, 3>>
    /\ kor.prove.r # 0
    /\ kor.prove.c # 0
    /\ kor.mvk.alpha2 # G_identity
    /\ kor.mvk.beta2 # G_identity

\* The transcript each verifier hashes, for the proof it was handed and for
\* the proof the prover made.
IssuanceTranscript(pi) ==
    CheckKoR_toHash(params, kor.prepared.com, kor.prepared.comi, kor.prepared.h, pi)

PresentationTranscript(proveRes) ==
    checkKoRVerify_toHash(params, proveRes, kor.mvk, kor.prepared.com_str, kor.aggSig.h)

\* The challenge hash does not collide on the two transcripts involved.
NoCollision(T1, T2) ==
    T1 # T2 => hashToZr(T1, params.prime_order) # hashToZr(T2, params.prime_order)

DkgPrimeOrders == {7}
DkgDIDs == {<<0, 3>>, <<12, 6>>}

numStr(x) == DecimalDigits(x)

SortedSeq(S, n) == SelectSeq([k \in 1..n |-> k], LAMBDA k : k \in S)

\* The commitment arrays of trustee l as generate_polynomials printed them.
CommitmentArgs(l) == dkg.polys[l].V_x \o dkg.polys[l].V_y \o dkg.polys[l].V_y_prime

\* Position of the share of dealer l for receiver i in dkg.shares.
ShareIdx(l, i) == (l - 1) * dkg.n + i

InitDKG ==
    /\ \E p \in DkgPrimeOrders, seed \in 0..MaxSeed, n \in 2..MaxDkgEA :
         \E t \in 1..(n - 1), extra \in {0, 1} :
           /\ params = setupParams(p, rng_seed(seed))
           /\ dkg = [n |-> n, t |-> t,
                     \* compute_verification_keys is called with the threshold t
                     \* or with the number of coefficients t + 1
                     vkThreshold |-> t + extra,
                     polys |-> <<>>, shares |-> <<>>, valid |-> <<>>,
                     Q |-> <<>>, mvk |-> None, sgk |-> <<>>, vk |-> <<>>,
                     pbc |-> rng_at(rng_seed(seed), 3),
                     didStr |-> <<>>, prepared |-> None, signers |-> <<>>,
                     sigs |-> <<>>, usigs |-> <<>>, aggregate |-> None,
                     threw |-> ""]
    /\ pc = "generate_polynomials"
    /\ lag = Idle
    /\ run = Idle
    /\ shr = Idle
    /\ kor = Idle
    /\ sgn = Idle
    /\ prs = Idle
    /\ agg = Idle
    /\ cli = Idle
    /\ wasm = Idle
    /\ sha = Idle
    /\ thr = Idle

DkgGeneratePolynomials ==
    /\ pc = "generate_polynomials"
    /\ \E seed \in 0..MaxSeed :
         dkg' = [dkg EXCEPT !.polys =
                    Append(@, generate_polynomials(params, <<numStr(dkg.t)>>, rng_seed(seed)))]
    /\ pc' = IF Len(dkg.polys) + 1 = dkg.n THEN "evaluate_polynomial" ELSE pc
    /\ UNCHANGED <<params, lag, run, shr, kor, sgn, prs, agg, cli, wasm, sha, thr>>

DkgEvaluatePolynomial ==
    /\ pc = "evaluate_polynomial"
    /\ LET k == Len(dkg.shares)
           l == (k \div dkg.n) + 1
           i == (k % dkg.n) + 1
           args == <<numStr(dkg.t), numStr(i)>>
                       \o dkg.polys[l].F_coeffs \o dkg.polys[l].G_coeffs
       IN  dkg' = [dkg EXCEPT !.shares = Append(@, evaluate_polynomial(params, args))]
    /\ pc' = IF Len(dkg.shares) + 1 = dkg.n * dkg.n THEN "verify_share" ELSE pc
    /\ UNCHANGED <<params, lag, run, shr, kor, sgn, prs, agg, cli, wasm, sha, thr>>

DkgVerifyShare ==
    /\ pc = "verify_share"
    /\ LET k == Len(dkg.valid)
           l == (k \div dkg.n) + 1
           i == (k % dkg.n) + 1
           args == <<numStr(dkg.t), numStr(i),
                     dkg.shares[k + 1].F, dkg.shares[k + 1].G>> \o CommitmentArgs(l)
       IN  dkg' = [dkg EXCEPT !.valid = Append(@, verify_share(params, args).valid)]
    /\ pc' = IF Len(dkg.valid) + 1 = dkg.n * dkg.n THEN "aggregate_mvk" ELSE pc
    /\ UNCHANGED <<params, lag, run, shr, kor, sgn, prs, agg, cli, wasm, sha, thr>>

\* The qualified set is any non-empty set of trustees whose shares all verified.
DkgAggregateMvk ==
    /\ pc = "aggregate_mvk"
    /\ \E QSet \in (SUBSET (1..dkg.n)) \ {{}} :
         /\ \A l \in QSet, i \in 1..dkg.n : dkg.valid[ShareIdx(l, i)]
         /\ LET Q == SortedSeq(QSet, dkg.n)
                args == <<numStr(dkg.t), numStr(Len(Q))>>
                            \o [q \in 1..Len(Q) |-> numStr(Q[q])]
                            \o Concat([q \in 1..Len(Q) |-> CommitmentArgs(Q[q])])
            IN  dkg' = [dkg EXCEPT !.Q = Q, !.mvk = aggregate_mvk(params, args)]
    /\ pc' = "compute_signing_key"
    /\ UNCHANGED <<params, lag, run, shr, kor, sgn, prs, agg, cli, wasm, sha, thr>>

DkgComputeSigningKey ==
    /\ pc = "compute_signing_key"
    /\ LET i == Len(dkg.sgk) + 1
           Q == dkg.Q
           args == <<numStr(dkg.t), numStr(Len(Q)), numStr(i)>>
                       \o Concat([q \in 1..Len(Q) |->
                                     <<dkg.shares[ShareIdx(Q[q], i)].F,
                                       dkg.shares[ShareIdx(Q[q], i)].G>>])
       IN  dkg' = [dkg EXCEPT !.sgk = Append(@, compute_signing_key(params, args))]
    /\ pc' = IF Len(dkg.sgk) + 1 = dkg.n THEN "compute_verification_keys" ELSE pc
    /\ UNCHANGED <<params, lag, run, shr, kor, sgn, prs, agg, cli, wasm, sha, thr>>

DkgComputeVerificationKeys ==
    /\ pc = "compute_verification_keys"
    /\ LET i == Len(dkg.vk) + 1
           Q == dkg.Q
           args == <<numStr(dkg.vkThreshold), numStr(Len(Q)), numStr(i)>>
                       \o Concat([q \in 1..Len(Q) |-> CommitmentArgs(Q[q])])
       IN  dkg' = [dkg EXCEPT !.vk = Append(@, compute_verification_keys(params, args))]
    /\ pc' = IF Len(dkg.vk) + 1 = dkg.n THEN "prepare" ELSE pc
    /\ UNCHANGED <<params, lag, run, shr, kor, sgn, prs, agg, cli, wasm, sha, thr>>


\* The keys of EA m as the issuance functions take them.
DkgEAKey(m) ==
    [sgk1 |-> hexToMpz(dkg.sgk[m].sgk1),
     sgk2 |-> hexToMpz(dkg.sgk[m].sgk2),
     vkm1 |-> hexToElement(dkg.vk[m].vk1),
     vkm2 |-> hexToElement(dkg.vk[m].vk2),
     vkm3 |-> hexToElement(dkg.vk[m].vk3)]

DkgMvk ==
    [alpha2 |-> hexToElement(dkg.mvk.alpha2),
     beta2 |-> hexToElement(dkg.mvk.beta2),
     beta1 |-> hexToElement(dkg.mvk.beta1)]

DkgPrepareBlindSign ==
    /\ pc = "prepare"
    /\ \E didStr \in DkgDIDs :
         LET p == params.prime_order
             d(k) == element_random_Zr(dkg.pbc, k, p)
         IN  dkg' = [dkg EXCEPT
                       !.didStr = didStr,
                       !.prepared = prepareBlindSign(params, didStr,
                                                     d(1), d(2), d(3), d(4), d(5)),
                       !.pbc = rng_at(dkg.pbc, 5)]
    /\ pc' = "choose_signers"
    /\ UNCHANGED <<params, lag, run, shr, kor, sgn, prs, agg, cli, wasm, sha, thr>>

\* Any t distinct EAs, in any order.
DkgChooseSigners ==
    /\ pc = "choose_signers"
    /\ \E signers \in [1..dkg.t -> 1..dkg.n] :
         /\ \A a, b \in 1..dkg.t : a # b => signers[a] # signers[b]
         /\ dkg' = [dkg EXCEPT !.signers = signers]
    /\ pc' = "blindsign"
    /\ UNCHANGED <<params, lag, run, shr, kor, sgn, prs, agg, cli, wasm, sha, thr>>

DkgBlindSign ==
    /\ pc = "blindsign"
    /\ LET m == dkg.signers[Len(dkg.sigs) + 1]
           sig == blindSign(params, dkg.prepared, DkgEAKey(m).sgk1, DkgEAKey(m).sgk2,
                            m - 1, 0)
       IN  IF sig.threw # ""
             THEN /\ dkg' = [dkg EXCEPT !.threw = sig.threw]
                  /\ pc' = "terminated"
             ELSE /\ dkg' = [dkg EXCEPT !.sigs = Append(@, sig)]
                  /\ pc' = IF Len(dkg.sigs) + 1 = dkg.t THEN "unblind" ELSE pc
    /\ UNCHANGED <<params, lag, run, shr, kor, sgn, prs, agg, cli, wasm, sha, thr>>

DkgUnblindSign ==
    /\ pc = "unblind"
    /\ LET sig == dkg.sigs[Len(dkg.usigs) + 1]
           usig == unblindSign(params, dkg.prepared, sig, DkgEAKey(sig.adminId + 1),
                               dkg.didStr)
       IN  IF usig.threw # ""
             THEN /\ dkg' = [dkg EXCEPT !.threw = usig.threw]
                  /\ pc' = "terminated"
             ELSE /\ dkg' = [dkg EXCEPT
                               !.usigs = Append(@, [adminId |-> sig.adminId, sig |-> usig])]
                  /\ pc' = IF Len(dkg.usigs) + 1 = dkg.t THEN "aggregate" ELSE pc
    /\ UNCHANGED <<params, lag, run, shr, kor, sgn, prs, agg, cli, wasm, sha, thr>>

DkgAggregateSign ==
    /\ pc = "aggregate"
    /\ dkg' = [dkg EXCEPT !.aggregate = aggregateSign(params, dkg.usigs)]
    /\ pc' = "done"
    /\ UNCHANGED <<params, lag, run, shr, kor, sgn, prs, agg, cli, wasm, sha, thr>>

NextDKG ==
    \/ DkgGeneratePolynomials
    \/ DkgEvaluatePolynomial
    \/ DkgVerifyShare
    \/ DkgAggregateMvk
    \/ DkgComputeSigningKey
    \/ DkgComputeVerificationKeys
    \/ DkgPrepareBlindSign
    \/ DkgChooseSigners
    \/ DkgBlindSign
    \/ DkgUnblindSign
    \/ DkgAggregateSign

SpecDKG == InitDKG /\ [][NextDKG]_vars

\* C3: with the EA keys of the DKG commands run with threshold t, the
\* aggregate (h, s) of the unblinded partial signatures of any t distinct EAs
\* satisfies e(h, alpha2 * beta2^DID) = e(s, g2).
C3_DkgAggregateVerifies ==
    pc = "done" =>
        LET p == params.prime_order
            did == didStringToMpz(dkg.didStr, p)
        IN  pairing_apply(dkg.aggregate.h,
                          element_mul(DkgMvk.alpha2,
                                      element_pow_zn(DkgMvk.beta2, did, p), p), p)
              = pairing_apply(dkg.aggregate.s, params.g2, p)

\* C7: called with the same threshold t, qualified set and index i, and the
\* commitment vectors of length t + 1 that generate_polynomials printed,
\* compute_verification_keys returns vk1 = g2^sgk1, vk2 = g2^sgk2 and
\* vk3 = g1^sgk2 for the (sgk1, sgk2) of compute_signing_key.
C7_VerificationKeysMatchSigningKey ==
    dkg.vkThreshold = dkg.t =>
        \A i \in 1..Len(dkg.vk) :
            LET p == params.prime_order
                key == DkgEAKey(i)
            IN  /\ key.vkm1 = element_pow_zn(params.g2, key.sgk1, p)
                /\ key.vkm2 = element_pow_zn(params.g2, key.sgk2, p)
                /\ key.vkm3 = element_pow_zn(params.g1, key.sgk2, p)


RECURSIVE SeqSumMod(_, _)
SeqSumMod(seq, p) ==
    IF seq = <<>> THEN 0 ELSE (Head(seq) + SeqSumMod(Tail(seq), p)) % p

\* Lagrange interpolation at x = 0 of the points (i, value[i]), i in S.
InterpolateAtZero(S, value, p) ==
    LET idx == SortedSeq(S, dkg.n)
        ids == [k \in 1..Len(idx) |-> idx[k] - 1]
    IN  SeqSumMod([k \in 1..Len(idx) |->
                      (ClosedFormLagrange(ids, k, p) * value[idx[k]]) % p], p)

\* The joint secrets F(0) and G(0): the sums of the constant coefficients of
\* the qualified trustees.
DkgF0 ==
    SeqSumMod([q \in 1..Len(dkg.Q) |-> hexToMpz(dkg.polys[dkg.Q[q]].F_coeffs[1])],
              params.prime_order)

DkgG0 ==
    SeqSumMod([q \in 1..Len(dkg.Q) |-> hexToMpz(dkg.polys[dkg.Q[q]].G_coeffs[1])],
              params.prime_order)

\* C6: for a qualified set Q with |Q| >= t + 1 and any t + 1 distinct EA
\* indices, interpolating the sgk1 of compute_signing_key at x = 0 gives
\* F(0) = sum over Q of F_l(0), and g2^F(0) is the alpha2 of aggregate_mvk;
\* likewise sgk2 gives G(0) with g2^G(0) = beta2 and g1^G(0) = beta1.
C6_DkgConsistency ==
    (Len(dkg.sgk) = dkg.n /\ Len(dkg.Q) >= dkg.t + 1) =>
        LET p == params.prime_order
            sgk1 == [i \in 1..dkg.n |-> hexToMpz(dkg.sgk[i].sgk1)]
            sgk2 == [i \in 1..dkg.n |-> hexToMpz(dkg.sgk[i].sgk2)]
        IN  /\ \A S \in SUBSET (1..dkg.n) :
                  Cardinality(S) = dkg.t + 1 =>
                      /\ InterpolateAtZero(S, sgk1, p) = DkgF0
                      /\ InterpolateAtZero(S, sgk2, p) = DkgG0
            /\ element_pow_zn(params.g2, DkgF0, p) = DkgMvk.alpha2
            /\ element_pow_zn(params.g2, DkgG0, p) = DkgMvk.beta2
            /\ element_pow_zn(params.g1, DkgG0, p) = DkgMvk.beta1

C6_Witness ==
    /\ pc = "compute_verification_keys"
    /\ Len(dkg.sgk) = dkg.n
    /\ dkg.n = 3
    /\ dkg.t = 1
    /\ Len(dkg.Q) = 2
    /\ DkgF0 # 0
    /\ DkgG0 # 0
    /\ \E q \in 1..Len(dkg.Q) : hexToMpz(dkg.polys[dkg.Q[q]].F_coeffs[2]) # 0
    /\ InterpolateAtZero({2, 3}, [i \in 1..dkg.n |-> hexToMpz(dkg.sgk[i].sgk1)],
                         params.prime_order) = DkgF0

\* C19: aggregate_mvk and compute_signing_key end with an error, not with a
\* key, when num_qualified < threshold + 1.
C19_TooFewQualifiedIsAnError ==
    /\ (dkg.mvk # None /\ Len(dkg.Q) < dkg.t + 1) => dkg.mvk.exit = 1
    /\ \A i \in 1..Len(dkg.sgk) : Len(dkg.Q) < dkg.t + 1 => dkg.sgk[i].exit = 1


(***************************************************************************)
(* Specification SpecSign: one exchange between a voter and one EA.  The   *)
(* voter runs prepareBlindSign; the request (com, comi, h, pi_s) may reach *)
(* the EA with one field changed; the EA runs blindSign; the blind         *)
(* signature may reach the voter with other values of h and cm; the voter  *)
(* runs unblindSign on it with the PrepareBlindSignOutput it kept.         *)
(***************************************************************************)
SignPrimeOrders == {5, 7}
SignDIDs == {<<0, 3>>, <<12, 6>>}
RequestElements == {"com", "comi", "h"}

InitSign ==
    /\ \E p \in SignPrimeOrders, seed \in 0..MaxSeed :
           params = setupParams(p, rng_seed(seed))
    /\ \E didStr \in SignDIDs, o \in 0..(params.prime_order - 1),
          keySeed \in 0..MaxSeed, seed \in 0..MaxSeed :
           sgn = [didStr |-> didStr, o |-> o, pbc |-> rng_seed(seed),
                  eaKey |-> keygen(params, 1, 1, rng_seed(keySeed)).eaKeys[1],
                  prepared |-> None, request |-> None, altered |-> "none",
                  sig |-> None, blindSig |-> None, alteredSig |-> FALSE,
                  usig |-> None]
    /\ pc = "prepare"
    /\ lag = Idle
    /\ dkg = Idle
    /\ run = Idle
    /\ shr = Idle
    /\ kor = Idle
    /\ prs = Idle
    /\ agg = Idle
    /\ cli = Idle
    /\ wasm = Idle
    /\ sha = Idle
    /\ thr = Idle

\* prepareBlindSign(params, did); o_i, r1, r2, r3 are draws of the stream.
SignPrepareBlindSign ==
    /\ pc = "prepare"
    /\ LET p == params.prime_order
           d(n) == element_random_Zr(sgn.pbc, n, p)
           out == prepareBlindSign(params, sgn.didStr, d(1), sgn.o, d(2), d(3), d(4))
       IN  sgn' = [sgn EXCEPT !.prepared = out, !.request = out,
                              !.pbc = rng_at(sgn.pbc, 4)]
    /\ pc' = "request"
    /\ UNCHANGED <<params, lag, dkg, run, shr, kor, prs, agg, cli, wasm, sha, thr>>

\* One of com, comi, h reaches the EA as another element of G1.
SignAlterElement ==
    /\ pc = "request"
    /\ sgn.altered = "none"
    /\ \E f \in RequestElements, v \in 0..(params.prime_order - 1) :
         /\ v # sgn.request[f]
         /\ sgn' = [sgn EXCEPT !.request[f] = v, !.altered = f]
    /\ UNCHANGED <<params, pc, lag, dkg, run, shr, kor, prs, agg, cli, wasm, sha, thr>>

\* One of c, s1, s2, s3 of pi_s reaches the EA as another value of Zr.
SignAlterProof ==
    /\ pc = "request"
    /\ sgn.altered = "none"
    /\ \E f \in KorFields, v \in 0..(params.prime_order - 1) :
         /\ v # sgn.request.pi_s[f]
         /\ sgn' = [sgn EXCEPT !.request.pi_s[f] = v, !.altered = f]
    /\ UNCHANGED <<params, pc, lag, dkg, run, shr, kor, prs, agg, cli, wasm, sha, thr>>

\* blindSign(params, bsOut, xm, ym, adminId, voterId) by the EA.
SignBlindSign ==
    /\ pc = "request"
    /\ LET sig == blindSign(params, sgn.request, sgn.eaKey.sgk1, sgn.eaKey.sgk2, 0, 0)
       IN  /\ sgn' = [sgn EXCEPT !.sig = sig, !.blindSig = sig]
           /\ pc' = IF sig.threw = "" THEN "signed" ELSE "terminated"
    /\ UNCHANGED <<params, lag, dkg, run, shr, kor, prs, agg, cli, wasm, sha, thr>>

\* The blind signature reaches the voter with other values of (h, cm).
SignAlterBlindSig ==
    /\ pc = "signed"
    /\ ~sgn.alteredSig
    /\ \E h \in 0..(params.prime_order - 1), cm \in 0..(params.prime_order - 1) :
         /\ <<h, cm>> # <<sgn.sig.h, sgn.sig.cm>>
         /\ sgn' = [sgn EXCEPT !.blindSig.h = h, !.blindSig.cm = cm,
                               !.alteredSig = TRUE]
    /\ UNCHANGED <<params, pc, lag, dkg, run, shr, kor, prs, agg, cli, wasm, sha, thr>>

\* unblindSign(params, bsOut, blindSig, eaKey, didStr) by the voter.
SignUnblindSign ==
    /\ pc = "signed"
    /\ sgn' = [sgn EXCEPT !.usig = unblindSign(params, sgn.prepared, sgn.blindSig,
                                               sgn.eaKey, sgn.didStr)]
    /\ pc' = "done"
    /\ UNCHANGED <<params, lag, dkg, run, shr, kor, prs, agg, cli, wasm, sha, thr>>

NextSign ==
    \/ SignPrepareBlindSign
    \/ SignAlterElement
    \/ SignAlterProof
    \/ SignBlindSign
    \/ SignAlterBlindSig
    \/ SignUnblindSign

SpecSign == InitSign /\ [][NextSign]_vars

\* The seven elements CheckKoR hashes for the request the EA received and
\* for the request the voter made.
ReceivedTranscript ==
    CheckKoR_toHash(params, sgn.request.com, sgn.request.comi, sgn.request.h,
                    sgn.request.pi_s)

PreparedTranscript ==
    CheckKoR_toHash(params, sgn.prepared.com, sgn.prepared.comi, sgn.prepared.h,
                    sgn.prepared.pi_s)

\* blindSign returned a BlindSignature only after both of its checks passed,
\* and the signature is (h, h^xm * com^ym) of the request it received.
BlindSignReturnsChecked ==
    (sgn.sig # None /\ sgn.sig.threw = "") =>
        /\ CheckKoR(params, sgn.request.com, sgn.request.comi, sgn.request.h,
                    sgn.request.pi_s)
        /\ sgn.request.h = hashToG1(sgn.request.comi, params.prime_order)
        /\ sgn.sig.h = sgn.request.h
        /\ sgn.sig.cm = (sgn.request.h * sgn.eaKey.sgk1
                           + sgn.request.com * sgn.eaKey.sgk2) % params.prime_order

PartialSignatureVerifies(h, s_m) ==
    LET p == params.prime_order
        didInt == didStringToMpz(sgn.didStr, p)
    IN  pairing_apply(h, element_mul(sgn.eaKey.vkm1,
                                     element_pow_zn(sgn.eaKey.vkm2, didInt, p), p), p)
            = pairing_apply(s_m, params.g2, p)

\* s_m = cm * vk3^(-o) for the blind signature the voter received.
UnblindedValue ==
    element_mul(sgn.blindSig.cm,
                element_pow_zn(sgn.eaKey.vkm3,
                               (params.prime_order - sgn.prepared.o) % params.prime_order,
                               params.prime_order),
                params.prime_order)

\* C12: unblindSign returns (h, s_m) with s_m = cm * vk3^(-o) only when
\* e(h, vk1 * vk2^did) = e(s_m, g2) holds for the EA's key; on an input for
\* which the equation fails, such as the honest cm multiplied by g1, it
\* raises an error; on the blind signature blindSign made for the voter's own
\* request it returns.
C12_UnblindSignGuard ==
    sgn.usig # None =>
        /\ sgn.usig.threw = "" =>
              /\ sgn.usig.s_m = UnblindedValue
              /\ PartialSignatureVerifies(sgn.usig.h, sgn.usig.s_m)
        /\ ~PartialSignatureVerifies(sgn.blindSig.h, UnblindedValue)
              => sgn.usig.threw # ""
        /\ (sgn.altered = "none" /\ sgn.blindSig.h = sgn.sig.h
               /\ sgn.blindSig.cm = element_mul(sgn.sig.cm, params.g1, params.prime_order))
              => sgn.usig.threw # ""
        /\ (sgn.altered = "none" /\ ~sgn.alteredSig) => sgn.usig.threw = ""

C12_Witness ==
    /\ sgn.usig # None
    /\ sgn.altered = "none"
    /\ sgn.alteredSig
    /\ sgn.blindSig.h = sgn.sig.h
    /\ sgn.blindSig.cm = element_mul(sgn.sig.cm, params.g1, params.prime_order)
    /\ sgn.usig.threw = "unblindSign: Pairing check failed"

\* C13: every UnblindSignature that unblindSign returns has
\* h = H_G1(com_i) of the voter's PrepareBlindSignOutput, whatever the h of
\* the BlindSignature it was given.
C13_UnblindCarriesPreparedH ==
    (sgn.usig # None /\ sgn.usig.threw = "")
        => sgn.usig.h = hashToG1(sgn.prepared.comi, params.prime_order)


(***************************************************************************)
(* Specification SpecPresent: one credential, issued by a single EA, and   *)
(* the presentations made from it.  Each presentation runs the stages of   *)
(* main(): proveCredential, generateKoRProof, then pairingCheck and        *)
(* checkKoRVerify with the arguments main() passes them.                   *)
(***************************************************************************)
Presentations == {1, 2}

\* setupParams draws g1, h1, g2 from PBC's generator; the later element_random
\* calls continue the same stream.
InitPresent ==
    /\ \E p \in SignPrimeOrders, didStr \in SignDIDs,
          seed \in 0..MaxSeed, keySeed \in 0..MaxSeed :
         /\ params = setupParams(p, rng_seed(seed))
         /\ prs = [didStr |-> didStr, pbc |-> rng_at(rng_seed(seed), 3),
                   mvk |-> keygen(params, 1, 1, rng_seed(keySeed)).mvk,
                   eaKey |-> keygen(params, 1, 1, rng_seed(keySeed)).eaKeys[1],
                   prepared |-> None, aggSig |-> None,
                   rand |-> <<>>, returned |-> None, prove |-> None,
                   kor_h |-> None, shown |-> <<>>]
    /\ pc = "issue"
    /\ lag = Idle
    /\ dkg = Idle
    /\ run = Idle
    /\ shr = Idle
    /\ kor = Idle
    /\ sgn = Idle
    /\ agg = Idle
    /\ cli = Idle
    /\ wasm = Idle
    /\ sha = Idle
    /\ thr = Idle

\* prepareBlindSign, blindSign, unblindSign and aggregateSign with one EA
\* (main_parallel_backup.cpp:115-213).
PresentIssue ==
    /\ pc = "issue"
    /\ LET p == params.prime_order
           d(n) == element_random_Zr(prs.pbc, n, p)
           out == prepareBlindSign(params, prs.didStr, d(1), d(2), d(3), d(4), d(5))
           sig == blindSign(params, out, prs.eaKey.sgk1, prs.eaKey.sgk2, 0, 0)
           usig == unblindSign(params, out, sig, prs.eaKey, prs.didStr)
       IN  /\ sig.threw = ""
           /\ usig.threw = ""
           /\ prs' = [prs EXCEPT
                        !.prepared = out,
                        !.aggSig = aggregateSign(params, <<[adminId |-> 0, sig |-> usig]>>),
                        !.pbc = rng_at(prs.pbc, 5)]
    /\ pc' = "prove"
    /\ UNCHANGED <<params, lag, dkg, run, shr, kor, sgn, agg, cli, wasm, sha, thr>>

\* proveCredential (main_parallel_backup.cpp:222-225); r and r' are its two
\* element_random draws.
PresentProveCredential ==
    /\ pc = "prove"
    /\ Len(prs.shown) + 1 \in Presentations
    /\ \E r \in 0..(params.prime_order - 1), r_prime \in 0..(params.prime_order - 1) :
         LET pOut == proveCredential(params, prs.aggSig, prs.mvk, prs.didStr,
                                     prs.prepared.o, r, r_prime)
         IN  prs' = [prs EXCEPT !.rand = Append(@, <<r, r_prime>>),
                                !.returned = pOut, !.prove = pOut]
    /\ pc' = "kor"
    /\ UNCHANGED <<params, lag, dkg, run, shr, kor, sgn, agg, cli, wasm, sha, thr>>

\* generateKoRProof as main() calls it (main_parallel_backup.cpp:233-276).
PresentGenerateKoR ==
    /\ pc = "kor"
    /\ LET p == params.prime_order
           korProof == generateKoRProof(params, prs.aggSig.h, prs.prove.k, prs.prove.r,
                                        stringToElement(prs.prepared.com_str),
                                        prs.mvk.alpha2, prs.mvk.beta2,
                                        mpz_set_str16(prs.didStr) % p, prs.prepared.o,
                                        element_random_Zr(prs.pbc, 1, p),
                                        element_random_Zr(prs.pbc, 2, p),
                                        element_random_Zr(prs.pbc, 3, p))
       IN  prs' = [prs EXCEPT
                     !.prove = [@ EXCEPT !.c = korProof.c, !.s1 = korProof.s1,
                                         !.s2 = korProof.s2, !.s3 = korProof.s3],
                     !.kor_h = prs.aggSig.h,
                     !.pbc = rng_at(prs.pbc, 3)]
    /\ pc' = "verify"
    /\ UNCHANGED <<params, lag, dkg, run, shr, kor, sgn, agg, cli, wasm, sha, thr>>

\* The verifier's side (main_parallel_backup.cpp:327-345): pairingCheck and
\* checkKoRVerify, and the arguments they are given.
PresentVerify ==
    /\ pc = "verify"
    /\ LET pairing_ok == pairingCheck(params, prs.prove)
           kor_ok == checkKoRVerify(params, prs.prove, prs.mvk, prs.prepared.com_str,
                                    prs.aggSig.h)
           given == [proveRes |-> prs.prove, com_str |-> prs.prepared.com_str,
                     h |-> prs.aggSig.h,
                     pairing_ok |-> pairing_ok, kor_ok |-> kor_ok,
                     verified |-> pairing_ok /\ kor_ok]
       IN  prs' = [prs EXCEPT !.shown = Append(@, given)]
    /\ pc' = IF Len(prs.shown) + 2 \in Presentations THEN "prove" ELSE "done"
    /\ UNCHANGED <<params, lag, dkg, run, shr, kor, sgn, agg, cli, wasm, sha, thr>>

NextPresent ==
    \/ PresentIssue
    \/ PresentProveCredential
    \/ PresentGenerateKoR
    \/ PresentVerify

SpecPresent == InitPresent /\ [][NextPresent]_vars

\* e(h, alpha2 * beta2^did) = e(s, g2) for the credential at hand.
AggregateVerifies ==
    LET p == params.prime_order
        didInt == didStringToMpz(prs.didStr, p)
    IN  pairing_apply(prs.aggSig.h,
                      element_mul(prs.mvk.alpha2,
                                  element_pow_zn(prs.mvk.beta2, didInt, p), p), p)
            = pairing_apply(prs.aggSig.s, params.g2, p)

\* C14: for an aggregate signature (h, s) with e(h, alpha2 * beta2^did) =
\* e(s, g2) and every r, r' of Zr, proveCredential returns h'' = h^r',
\* s'' = s^r' * h''^r and k = alpha2 * beta2^did * g2^r, and pairingCheck
\* returns true on it.
C14_RerandomizationPreservesValidity ==
    (prs.returned # None /\ AggregateVerifies) =>
        LET p == params.prime_order
            r == prs.rand[Len(prs.rand)][1]
            r_prime == prs.rand[Len(prs.rand)][2]
            didInt == didStringToMpz(prs.didStr, p)
            h_dbl == (prs.aggSig.h * r_prime) % p
        IN  /\ prs.returned.sigmaRnd.h = h_dbl
            /\ prs.returned.sigmaRnd.s = (prs.aggSig.s * r_prime + h_dbl * r) % p
            /\ prs.returned.k = (prs.mvk.alpha2 + prs.mvk.beta2 * didInt + params.g2 * r) % p
            /\ pairingCheck(params, prs.returned)

C14_Witness ==
    /\ prs.returned # None
    /\ AggregateVerifies
    /\ prs.aggSig.s # G_identity
    /\ prs.rand[Len(prs.rand)][1] > 1
    /\ prs.rand[Len(prs.rand)][2] > 1
    /\ prs.returned.sigmaRnd.h # prs.aggSig.h
    /\ pairingCheck(params, prs.returned)

\* C15: in the pipeline the h handed to generateKoRProof and the h handed to
\* checkKoRVerify are both h'' = sigmaRnd.h of the proveCredential output.
C15_KoRBoundToRandomizedH ==
    /\ pc = "verify" => prs.kor_h = prs.prove.sigmaRnd.h
    /\ \A i \in 1..Len(prs.shown) : prs.shown[i].h = prs.shown[i].proveRes.sigmaRnd.h

\* The G1 and G2 elements pairingCheck and checkKoRVerify are given in
\* presentation i, and the elements of the public parameters and the MVK.
GivenElements(i) ==
    {prs.shown[i].proveRes.sigmaRnd.h, prs.shown[i].proveRes.sigmaRnd.s,
     prs.shown[i].proveRes.k, stringToElement(prs.shown[i].com_str), prs.shown[i].h}

PublicElements ==
    {params.g1, params.h1, params.g2, prs.mvk.alpha2, prs.mvk.beta2, prs.mvk.beta1}

\* C16: two presentations of one credential made with different r and
\* different non-zero r' give the verifier no G1 or G2 element in common other
\* than the public parameters and the MVK.
C16_PresentationsUnlinkable ==
    (/\ Len(prs.shown) = 2
     /\ prs.rand[1][1] # prs.rand[2][1]
     /\ prs.rand[1][2] # prs.rand[2][2]
     /\ prs.rand[1][2] # 0
     /\ prs.rand[2][2] # 0)
        => (GivenElements(1) \cap GivenElements(2)) \subseteq PublicElements

\* C20: checkKoRVerify accepts the ProveCredentialOutput as proveCredential
\* returned it, be it given the h of the aggregate or h'' of the output.
C20_ReturnedProofVerifies ==
    (prs.returned # None /\ AggregateVerifies) =>
        \/ checkKoRVerify(params, prs.returned, prs.mvk, prs.prepared.com_str,
                          prs.aggSig.h)
        \/ checkKoRVerify(params, prs.returned, prs.mvk, prs.prepared.com_str,
                          prs.returned.sigmaRnd.h)


(***************************************************************************)
(* Specification SpecAggregate: aggregateSign on a list of (adminId,       *)
(* partial signature) pairs, and on the same pairs in another order.       *)
(***************************************************************************)
SigValues == 1..3

InitAggregate ==
    /\ \E p \in PrimeOrders : params = [prime_order |-> p, g1 |-> 1, h1 |-> 2, g2 |-> 3]
    /\ \E n \in 1..MaxSigs :
         \E ids \in [1..n -> 0..MaxAdminId], s \in [1..n -> SigValues] :
           agg = [partialSigsWithAdmins |->
                      [k \in 1..n |-> [adminId |-> ids[k],
                                       sig |-> [h |-> params.g1, s_m |-> s[k]]]],
                  aggSig |-> None, reordered |-> None, aggSigReordered |-> None]
    /\ pc = "aggregate"
    /\ lag = Idle
    /\ dkg = Idle
    /\ run = Idle
    /\ shr = Idle
    /\ kor = Idle
    /\ sgn = Idle
    /\ prs = Idle
    /\ cli = Idle
    /\ wasm = Idle
    /\ sha = Idle
    /\ thr = Idle

\* aggregateSign on the list.
AggAggregateSign ==
    /\ pc = "aggregate"
    /\ agg' = [agg EXCEPT !.aggSig = aggregateSign(params, agg.partialSigsWithAdmins)]
    /\ pc' = "reorder"
    /\ UNCHANGED <<params, lag, dkg, run, shr, kor, sgn, prs, cli, wasm, sha, thr>>

\* aggregateSign on the list in another order, each admin ID kept with its
\* signature.
AggAggregateReordered ==
    /\ pc = "reorder"
    /\ \E f \in Permutations(1..Len(agg.partialSigsWithAdmins)) :
         LET reordered == [k \in 1..Len(agg.partialSigsWithAdmins) |->
                              agg.partialSigsWithAdmins[f[k]]]
         IN  agg' = [agg EXCEPT !.reordered = reordered,
                                !.aggSigReordered = aggregateSign(params, reordered)]
    /\ pc' = "done"
    /\ UNCHANGED <<params, lag, dkg, run, shr, kor, sgn, prs, cli, wasm, sha, thr>>

NextAggregate ==
    \/ AggAggregateSign
    \/ AggAggregateReordered

SpecAggregate == InitAggregate /\ [][NextAggregate]_vars

\* C17: aggregateSign returns the same s for a list of (adminId, partial
\* signature) pairs and for every reordering of it that keeps each admin ID
\* with its signature.
C17_AggregationOrderInvariant ==
    pc = "done" => agg.aggSigReordered.s = agg.aggSig.s

C17_Witness ==
    /\ pc = "done"
    /\ Len(agg.partialSigsWithAdmins) = 3
    /\ agg.reordered # agg.partialSigsWithAdmins
    /\ \A i, j \in 1..3 :
         i # j => /\ agg.partialSigsWithAdmins[i].adminId # agg.partialSigsWithAdmins[j].adminId
                  /\ agg.partialSigsWithAdmins[i].sig.s_m # agg.partialSigsWithAdmins[j].sig.s_m
    /\ \E i \in 1..3 :
         computeLagrangeCoefficient([k \in 1..3 |-> agg.partialSigsWithAdmins[k].adminId],
                                    i, params.prime_order) > 1
    /\ agg.aggSigReordered.s = agg.aggSig.s
    /\ agg.aggSig.s # G_identity


(***************************************************************************)
(* Specification SpecCli: one run of the DKG command line (dkg_cli.cpp     *)
(* main).  The argument vector is a prefix of a verify_share call built    *)
(* from a dealer's polynomials, with the share as dealt or changed, and    *)
(* possibly with one argument replaced by text that is not a number; the   *)
(* command is one of the six commands, an unknown word, or absent.         *)
(***************************************************************************)
CliPrimeOrders == {7}
NoCommand == ""
DkgCommands == {"generate_polynomials", "evaluate_polynomial", "verify_share",
                "aggregate_mvk", "compute_signing_key", "compute_verification_keys"}
CliCommands == DkgCommands \cup {NoCommand, "bogus"}

\* The arguments a command hands to std::stoi before any other parsing,
\* once its first argc test has passed.
dkg_stoi_args(command) ==
    CASE command = "generate_polynomials" -> {2}
      [] command \in {"evaluate_polynomial", "verify_share", "aggregate_mvk"} -> {2, 3}
      [] OTHER -> {2, 3, 4}

dkg_first_argc(command) ==
    CASE command = "generate_polynomials" -> 3
      [] command \in {"evaluate_polynomial", "aggregate_mvk"} -> 4
      [] OTHER -> 5

\* Whether a std::stoi of the command throws: one of its leading integers,
\* or, for aggregate_mvk, one of the qualified indices parsed after the
\* second argc test.
dkg_stoi_throws(command, args) ==
    \/ \E k \in dkg_stoi_args(command) : stoi_throws(argvAt(args, k))
    \/ /\ command = "aggregate_mvk"
       /\ \A k \in {2, 3} : ~stoi_throws(argvAt(args, k))
       /\ LET poly_size == stoi(argvAt(args, 2)) + 1
              num_qualified == stoi(argvAt(args, 3))
          IN  /\ argc(args) >= 4 + num_qualified + num_qualified * poly_size * 3
              /\ \E i \in 0..(num_qualified - 1) : stoi_throws(argvAt(args, 4 + i))

dkg_command(par, command, args, s) ==
    CASE command = "generate_polynomials" -> generate_polynomials(par, args, s)
      [] command = "evaluate_polynomial" -> evaluate_polynomial(par, args)
      [] command = "verify_share" -> verify_share(par, args)
      [] command = "aggregate_mvk" -> aggregate_mvk(par, args)
      [] command = "compute_signing_key" -> compute_signing_key(par, args)
      [] command = "compute_verification_keys" -> compute_verification_keys(par, args)

\* main(argc, argv): the exit code, the JSON object written to stdout (None
\* when nothing is written) and the error written to stderr.
dkg_main(par, command, args, s) ==
    IF command = NoCommand
        THEN [exit |-> 1, stdout |-> None, stderr |-> "No command specified"]
    ELSE IF command \notin DkgCommands
        THEN [exit |-> 1, stdout |-> None, stderr |-> "Unknown command"]
    ELSE IF argc(args) >= dkg_first_argc(command) /\ dkg_stoi_throws(command, args)
        THEN [exit |-> 1, stdout |-> None, stderr |-> "Exception"]
    ELSE LET out == dkg_command(par, command, args, s)
         IN  IF out.exit = 1
                 THEN [exit |-> 1, stdout |-> None, stderr |-> out.error]
             ELSE [exit |-> 0, stdout |-> out, stderr |-> ""]

NotANumber == <<10>>

InitCli ==
    /\ \E p \in CliPrimeOrders : params = setupParams(p, rng_seed(0))
    /\ \E command \in CliCommands, t \in 0..1, index \in 1..2, s \in 0..1,
          delta \in 0..1, bad \in 0..3 :
         LET dealt == generate_polynomials(params, <<numStr(t)>>, rng_seed(s))
             share == evaluate_polynomial(params,
                          <<numStr(t), numStr(index)>> \o dealt.F_coeffs \o dealt.G_coeffs)
             F == (hexToMpz(share.F) + delta) % params.prime_order
             full == <<numStr(t), numStr(index), mpzToHex(F), share.G>>
                         \o dealt.V_x \o dealt.V_y \o dealt.V_y_prime
         IN  \E cut \in 0..Len(full) :
               cli = [command |-> command,
                      args |-> [k \in 1..cut |-> IF k = bad THEN NotANumber ELSE full[k]],
                      state |-> rng_seed(s),
                      result |-> None]
    /\ pc = "start"
    /\ lag = Idle
    /\ dkg = Idle
    /\ run = Idle
    /\ shr = Idle
    /\ kor = Idle
    /\ sgn = Idle
    /\ prs = Idle
    /\ agg = Idle
    /\ wasm = Idle
    /\ sha = Idle
    /\ thr = Idle

RunCli ==
    /\ pc = "start"
    /\ cli' = [cli EXCEPT !.result = dkg_main(params, cli.command, cli.args, cli.state)]
    /\ pc' = "exited"
    /\ UNCHANGED <<params, lag, dkg, run, shr, kor, sgn, prs, agg, wasm, sha, thr>>

NextCli == RunCli

SpecCli == InitCli /\ [][NextCli]_vars

\* A user or parse error: no command, an unknown command, fewer arguments
\* than the command needs, or an integer argument that is not a number.
CliUserError ==
    \/ cli.command \notin DkgCommands
    \/ argc(cli.args) < dkg_first_argc(cli.command)
    \/ dkg_stoi_throws(cli.command, cli.args)
    \/ dkg_command(params, cli.command, cli.args, cli.state).exit = 1

\* A cryptographic failure of the command line: the share handed to
\* verify_share does not match the commitments.
CliInvalidShare ==
    /\ cli.command = "verify_share"
    /\ ~CliUserError
    /\ ~verify_share(params, cli.args).valid

\* C21: the command line exits with 0 only after the command wrote its JSON
\* object to stdout, with 1 and a JSON error on stderr on a user or parse
\* error, and with 2 on a cryptographic failure (a share that fails
\* verifyShare).
C21_ExitCodes ==
    pc = "exited" =>
        /\ cli.result.exit = 0 => (cli.result.stdout # None /\ ~CliUserError)
        /\ CliUserError => (cli.result.exit = 1 /\ cli.result.stderr # "")
        /\ CliInvalidShare => cli.result.exit = 2

\* The part of C21 the code keeps: 0 with the JSON object on stdout, or 1
\* with a JSON error on stderr exactly on a user or parse error.
C21_ZeroOrOne ==
    pc = "exited" =>
        /\ cli.result.exit \in {0, 1}
        /\ cli.result.exit = 1 <=> CliUserError
        /\ cli.result.exit = 1 <=> cli.result.stderr # ""
        /\ cli.result.exit = 0 <=> cli.result.stdout # None

C21_InvalidShareExitsZero ==
    pc = "exited" /\ CliInvalidShare /\ cli.result.exit = 0


(***************************************************************************)
(* blindsign-wasm/sha512.c.  A C string is a sequence of characters: the   *)
(* hex digits 0..15, and 16 for a character that is not a hex digit.  In   *)
(* the padded buffer a character c is the byte 48 + c.                     *)
(***************************************************************************)
\* padded_len = ((msg_len + 128) & ~127)
sha512_padded_len(msg_len) == ((msg_len + 128) \div 128) * 128

\* The buffer after lines 42-57: memcpy of the message, the 0x80 marker at
\* offset msg_len, zeros up to padded_len - 16, then the bit length written
\* into the last 16 bytes.  Later writes replace earlier ones.  Offset j of
\* the buffer is entry j + 1 of the sequence.
sha512_padded(msg) ==
    LET msg_len == Len(msg)
        padded_len == sha512_padded_len(msg_len)
        bit_len == msg_len * 8
        byte(j) ==
            IF j >= padded_len - 16
                THEN LET i == padded_len - 1 - j
                     \* bytes 4..7 of a bit length below 2^32 are 0, as are bytes 8..15
                     IN  IF i < 4 THEN (bit_len \div (256 ^ i)) % 256 ELSE 0
            ELSE IF j > msg_len THEN 0
            ELSE IF j = msg_len THEN 128
            ELSE 48 + msg[j + 1]
    IN  [k \in 1..padded_len |-> byte(k - 1)]

\* The padding of FIPS 180-4, which OpenSSL's SHA512 applies: the marker,
\* zeros, and the 16-byte bit length, in the least number of 128-byte
\* blocks that hold msg_len + 17 bytes.
fips_padded(msg) ==
    LET msg_len == Len(msg)
        padded_len == ((msg_len + 17 + 127) \div 128) * 128
        bit_len == msg_len * 8
        byte(j) ==
            IF j >= padded_len - 16
                THEN LET i == padded_len - 1 - j
                     \* bytes 4..7 of a bit length below 2^32 are 0, as are bytes 8..15
                     IN  IF i < 4 THEN (bit_len \div (256 ^ i)) % 256 ELSE 0
            ELSE IF j > msg_len THEN 0
            ELSE IF j = msg_len THEN 128
            ELSE 48 + msg[j + 1]
    IN  [k \in 1..padded_len |-> byte(k - 1)]

\* SHA512(message, len, digest) of sha512.c.  Its initial hash value, round
\* constants and compression (lines 5-31, 59-100) are those of SHA-512, so
\* the digest is the one OpenSSL computes exactly when the padded buffer is
\* the FIPS one, and the digest of another block sequence otherwise.
wasm_SHA512(msg) ==
    IF sha512_padded(msg) = fips_padded(msg) THEN SHA512(msg)
    ELSE SHA512(sha512_padded(msg))

(***************************************************************************)
(* blindsign-wasm/blindsign_wasm.c.  The statics of the module are the     *)
(* record [initialized, pairing, prime_order, g1, g2, h1]; pairing is the  *)
(* order of the groups the pairing parameters describe.                    *)
(***************************************************************************)
\* mpz_set_str(rop, str, 16) returning -1: no digits, or a character that
\* is not a hex digit.
mpz_set_str_fails(str) == str = <<>> \/ \E i \in 1..Len(str) : str[i] > 15

\* hex_to_mpz(rop, hex_str, modulus): 0 for an invalid string.
hex_to_mpz(hex_str, modulus) ==
    IF mpz_set_str_fails(hex_str) THEN 0 ELSE mpz_set_str16(hex_str) % modulus

\* element_to_hex: "%02x" of every byte of element_to_bytes.
element_to_hex(elem) == <<elem \div 16, elem % 16>>

hash_to_g1(in, q) == element_from_hash(element_to_hex(in), q)

\* hash_to_zr(out, strings, count)
hash_to_zr(strings, prime_order) == wasm_SHA512(Concat(strings)) % prime_order

\* compute_kor with the hash inputs h and h1 exchanged.
compute_kor_swapped(w, com, com_i, g1_elem, h1_elem, h_elem, o_i, did, o, r1, r2, r3) ==
    LET q == w.pairing
        com_i_prime == element_mul(element_pow_zn(g1_elem, r1, q),
                                   element_pow_zn(h1_elem, r2, q), q)
        com_prime == element_mul(element_pow_zn(g1_elem, r3, q),
                                 element_pow_zn(h_elem, r2, q), q)
        hash_inputs == <<element_to_hex(g1_elem), element_to_hex(h1_elem),
                         element_to_hex(h_elem), element_to_hex(com),
                         element_to_hex(com_prime), element_to_hex(com_i),
                         element_to_hex(com_i_prime)>>
        c == hash_to_zr(hash_inputs, w.prime_order) % q
    IN  [c |-> mpzToHex(c),
         s1 |-> mpzToHex((r1 - c * o_i) % w.prime_order),
         s2 |-> mpzToHex((r2 - c * did) % w.prime_order),
         s3 |-> mpzToHex((r3 - c * o) % w.prime_order)]

\* compute_kor; r1, r2, r3 are its three element_random draws.
compute_kor(w, com, com_i, g1_elem, h1_elem, h_elem, o_i, did, o, r1, r2, r3) ==
    LET q == w.pairing
        com_i_prime == element_mul(element_pow_zn(g1_elem, r1, q),
                                   element_pow_zn(h1_elem, r2, q), q)
        com_prime == element_mul(element_pow_zn(g1_elem, r3, q),
                                 element_pow_zn(h_elem, r2, q), q)
        hash_inputs == <<element_to_hex(g1_elem), element_to_hex(h_elem),
                         element_to_hex(h1_elem), element_to_hex(com),
                         element_to_hex(com_prime), element_to_hex(com_i),
                         element_to_hex(com_i_prime)>>
        c == hash_to_zr(hash_inputs, w.prime_order) % q
    IN  [c |-> mpzToHex(c),
         s1 |-> mpzToHex((r1 - c * o_i) % w.prime_order),
         s2 |-> mpzToHex((r2 - c * did) % w.prime_order),
         s3 |-> mpzToHex((r3 - c * o) % w.prime_order)]

\* strtol(byte_str, NULL, 16) on two characters: the digits before the
\* first character that is not a hex digit.
strtol16(byte_str) ==
    IF byte_str[1] > 15 THEN 0
    ELSE IF byte_str[2] > 15 THEN byte_str[1]
    ELSE 16 * byte_str[1] + byte_str[2]

\* hex_to_bytes(hex, &out, &out_len): -1 for an odd length only.
hex_to_bytes(hex) ==
    IF Len(hex) % 2 # 0 THEN [rc |-> -1, out |-> <<>>, out_len |-> 0]
    ELSE [rc |-> 0,
          out |-> [i \in 1..(Len(hex) \div 2) |-> strtol16(SubSeq(hex, 2 * i - 1, 2 * i))],
          out_len |-> Len(hex) \div 2]

\* element_from_bytes(e, bytes) on the malloc'ed buffer of hex_to_bytes: the
\* element's one byte is read from the buffer, or from whatever follows an
\* empty buffer on the heap.
wasm_element_from_bytes(bytes, heap) == IF bytes = <<>> THEN heap ELSE element_from_bytes(bytes)

\* init_pairing: the value returned and the statics it leaves.  A length
\* reported by element_from_bytes that differs from the buffer's only
\* prints a warning.
init_pairing(w, pairing_params_str, prime_order_hex, g1_hex, g2_hex, h1_hex, heap) ==
    IF w.initialized = 1 THEN [ret |-> 1, statics |-> w]
    ELSE LET w1 == [w EXCEPT !.pairing = pairing_params_str, !.prime_order = 0]
             w2 == [w1 EXCEPT !.prime_order = mpz_set_str16(prime_order_hex),
                              !.g1 = G_identity, !.g2 = G_identity, !.h1 = G_identity]
             g1_bytes == hex_to_bytes(g1_hex)
             w3 == [w2 EXCEPT !.g1 = wasm_element_from_bytes(g1_bytes.out, heap)]
             g2_bytes == hex_to_bytes(g2_hex)
             w4 == [w3 EXCEPT !.g2 = wasm_element_from_bytes(g2_bytes.out, heap)]
             h1_bytes == hex_to_bytes(h1_hex)
             w5 == [w4 EXCEPT !.h1 = wasm_element_from_bytes(h1_bytes.out, heap)]
         IN  IF mpz_set_str_fails(prime_order_hex) THEN [ret |-> -1, statics |-> w1]
             ELSE IF g1_bytes.rc # 0 THEN [ret |-> -1, statics |-> w2]
             ELSE IF g2_bytes.rc # 0 THEN [ret |-> -1, statics |-> w3]
             ELSE IF h1_bytes.rc # 0 THEN [ret |-> -1, statics |-> w4]
             ELSE [ret |-> 0, statics |-> [w5 EXCEPT !.initialized = 1]]

\* prepare_blind_sign(did_hex, o_hex): the JSON object it returns; s is the
\* state of the generator behind element_random, which is drawn for o_i and
\* then for r1, r2, r3.
prepare_blind_sign(w, did_hex, o_hex, s) ==
    IF w.initialized = 0 THEN [error |-> "Pairing not initialized"]
    ELSE LET q == w.pairing
             did == hex_to_mpz(did_hex, w.prime_order)
             o == hex_to_mpz(o_hex, w.prime_order)
             o_i == element_random_Zr(s, 1, q)
             com_i == element_mul(element_pow_zn(w.g1, o_i, q),
                                  element_pow_zn(w.h1, did % q, q), q)
             h == hash_to_g1(com_i, q)
             com == element_mul(element_pow_zn(w.g1, o % q, q),
                                element_pow_zn(h, did % q, q), q)
             proof == compute_kor(w, com, com_i, w.g1, w.h1, h, o_i, did, o,
                                  element_random_Zr(s, 2, q), element_random_Zr(s, 3, q),
                                  element_random_Zr(s, 4, q))
         IN  [error |-> "",
              com |-> element_to_hex(com),
              com_i |-> element_to_hex(com_i),
              h |-> element_to_hex(h),
              proof |-> proof,
              o |-> mpzToHex(o)]

\* cleanup_pairing with the test of the flag negated: nothing is released.
cleanup_pairing_negated(w) ==
    IF w.initialized # 1
        THEN [w EXCEPT !.initialized = 0, !.pairing = 0, !.prime_order = 0,
                       !.g1 = G_identity, !.g2 = G_identity, !.h1 = G_identity]
    ELSE w

\* cleanup_pairing
cleanup_pairing(w) ==
    IF w.initialized = 1
        THEN [w EXCEPT !.initialized = 0, !.pairing = 0, !.prime_order = 0,
                       !.g1 = G_identity, !.g2 = G_identity, !.h1 = G_identity]
    ELSE w


(***************************************************************************)
(* Specification SpecWasm: any sequence of init_pairing,                   *)
(* prepare_blind_sign and cleanup_pairing calls on one instance of the     *)
(* WASM module.  init_pairing is handed the parameters the backend         *)
(* generated, with the prime order possibly unparsable and one generator   *)
(* possibly of another length; prepare_blind_sign is handed strings that   *)
(* may not be hexadecimal.  wasm.live records the calls made: it is set by *)
(* an init_pairing that returned 0 and reset by every cleanup_pairing.     *)
(***************************************************************************)
WasmPrimeOrders == {5, 7}
WasmDIDs == {<<0, 3>>, <<12, 6>>, <<1, 16>>, <<>>}
WasmOs == {<<2>>, <<1, 1>>, <<16>>}
WasmShapes == {"exact", "long", "short", "odd"}

\* An encoding of the group's fixed length, a longer one, an empty one and
\* one of odd length.
Shaped(hex, shape) ==
    CASE shape = "exact" -> hex
      [] shape = "long" -> hex \o <<0, 0>>
      [] shape = "short" -> <<>>
      [] shape = "odd" -> <<hex[1]>>

NoStatics == [initialized |-> 0, pairing |-> 0, prime_order |-> 0,
              g1 |-> G_identity, g2 |-> G_identity, h1 |-> G_identity]
NoInitArgs == [prime_order_hex |-> <<>>, g1_hex |-> <<>>, g2_hex |-> <<>>, h1_hex |-> <<>>]
NoOutput == [error |-> "no call"]

InitWasm ==
    /\ wasm = [statics |-> NoStatics, live |-> FALSE, call |-> "none", ret |-> 0,
               init_args |-> NoInitArgs,
               did_hex |-> <<>>, o_hex |-> <<>>, rnd |-> 0, out |-> NoOutput]
    /\ params = Idle
    /\ pc = "wasm"
    /\ lag = Idle
    /\ dkg = Idle
    /\ run = Idle
    /\ shr = Idle
    /\ kor = Idle
    /\ sgn = Idle
    /\ prs = Idle
    /\ agg = Idle
    /\ cli = Idle
    /\ sha = Idle
    /\ thr = Idle

WasmInitPairing ==
    /\ pc = "wasm"
    /\ \E p \in WasmPrimeOrders, order_ok \in BOOLEAN,
          which \in {"g1", "g2", "h1"}, shape \in WasmShapes :
         /\ shape = "exact" => which = "g1"
         /\ ~order_ok => shape = "exact"
         /\ \E heap \in IF shape = "short" THEN 0..(p - 1) ELSE {0} :
           LET par == setupParams(p, rng_seed(0))
               hex(name, elem) ==
                   Shaped(element_to_hex(elem), IF which = name THEN shape ELSE "exact")
               args == [prime_order_hex |-> IF order_ok THEN mpzToHex(p) ELSE <<16>>,
                        g1_hex |-> hex("g1", par.g1),
                        g2_hex |-> hex("g2", par.g2),
                        h1_hex |-> hex("h1", par.h1)]
               res == init_pairing(wasm.statics, p, args.prime_order_hex,
                                   args.g1_hex, args.g2_hex, args.h1_hex, heap)
           IN  wasm' = [wasm EXCEPT !.statics = res.statics,
                                    !.live = IF res.ret = 0 THEN TRUE ELSE @,
                                    !.call = "init_pairing",
                                    !.ret = res.ret,
                                    !.init_args = IF res.ret = 1 THEN @ ELSE args,
                                    !.did_hex = <<>>, !.o_hex = <<>>, !.rnd = 0,
                                    !.out = NoOutput]
    /\ UNCHANGED <<params, pc, lag, dkg, run, shr, kor, sgn, prs, agg, cli, sha, thr>>

WasmPrepareBlindSign ==
    /\ pc = "wasm"
    /\ \E did_hex \in WasmDIDs, o_hex \in WasmOs, s \in 0..1 :
         wasm' = [wasm EXCEPT !.call = "prepare_blind_sign",
                              !.did_hex = did_hex, !.o_hex = o_hex, !.rnd = rng_seed(s),
                              !.out = prepare_blind_sign(wasm.statics, did_hex, o_hex,
                                                         rng_seed(s))]
    /\ UNCHANGED <<params, pc, lag, dkg, run, shr, kor, sgn, prs, agg, cli, sha, thr>>

WasmCleanupPairing ==
    /\ pc = "wasm"
    /\ wasm' = [wasm EXCEPT !.statics = cleanup_pairing(wasm.statics),
                            !.live = FALSE,
                            !.call = "cleanup_pairing",
                            !.ret = 0,
                            !.init_args = NoInitArgs,
                            !.did_hex = <<>>, !.o_hex = <<>>, !.rnd = 0,
                            !.out = NoOutput]
    /\ UNCHANGED <<params, pc, lag, dkg, run, shr, kor, sgn, prs, agg, cli, sha, thr>>

NextWasm ==
    \/ WasmInitPairing
    \/ WasmPrepareBlindSign
    \/ WasmCleanupPairing

SpecWasm == InitWasm /\ [][NextWasm]_vars

\* C22: prepare_blind_sign produces commitments and a proof exactly when
\* some init_pairing returned 0 and no cleanup_pairing came after it, and
\* returns the "Pairing not initialized" error otherwise (also after an
\* init_pairing that returned -1); init_pairing on an initialized context
\* returns 1 and leaves the stored parameters unchanged; cleanup_pairing on
\* an uninitialized context changes nothing.
C22_WasmLifecycle ==
    [][/\ wasm'.call = "prepare_blind_sign" =>
            /\ wasm.live => wasm'.out.error = ""
            /\ ~wasm.live => wasm'.out.error = "Pairing not initialized"
       /\ (wasm'.call = "init_pairing" /\ wasm.live) =>
            (wasm'.ret = 1 /\ wasm'.statics = wasm.statics)
       /\ (wasm'.call = "cleanup_pairing" /\ ~wasm.live) =>
            wasm'.statics = wasm.statics]_vars

\* prepare_blind_sign refusing after an init_pairing that returned -1.
C22_Witness ==
    /\ wasm.call = "prepare_blind_sign"
    /\ wasm.ret = -1
    /\ ~wasm.live
    /\ wasm.out.error = "Pairing not initialized"

\* C23: prepare_blind_sign returns a JSON object with an error field, and
\* no commitment or proof, whenever did_hex or o_hex is not a valid
\* hexadecimal string.
C23_InvalidHexIsAnError ==
    (/\ wasm.call = "prepare_blind_sign"
     /\ mpz_set_str_fails(wasm.did_hex) \/ mpz_set_str_fails(wasm.o_hex))
        => wasm.out.error # ""

\* What hexToElement (dkg_cli.cpp:68-84) can leave in e: it has no failure
\* path and compares no lengths; element_from_bytes reads the element's
\* bytes from the start of the vector, and from past its end when the
\* vector is shorter.
hexToElement_yields(hex, q) ==
    LET buf == hexToElement_buf(hex)
    IN  IF buf = <<>> THEN 0..(q - 1) ELSE {element_from_bytes(buf)}

\* What stringToElement (kor.cpp:49-68) can leave in result: it throws for
\* an empty byte vector; element_from_bytes never returns 0.
stringToElement_yields(str) ==
    LET bytes == hexToBytes(str)
    IN  IF bytes = <<>> THEN {} ELSE {element_from_bytes(bytes)}

\* The generator encodings of the last init_pairing whose length is not
\* the fixed length of the group.
WrongLengthEncodings ==
    {hex \in {wasm.init_args.g1_hex, wasm.init_args.g2_hex, wasm.init_args.h1_hex} :
        Len(hex) # Len(element_to_hex(G_identity))}

\* C24: an encoding that does not have the fixed byte length of the group
\* never gives a usable element or a successful initialization: init_pairing
\* returns -1 for it, and hexToElement and stringToElement yield no element
\* from it.
C24_WrongLengthIsAnError ==
    (/\ wasm.call = "init_pairing"
     /\ wasm.ret # 1
     /\ ~mpz_set_str_fails(wasm.init_args.prime_order_hex)
     /\ WrongLengthEncodings # {})
        => /\ wasm.ret = -1
           /\ \A hex \in WrongLengthEncodings :
                /\ hexToElement_yields(hex, wasm.statics.pairing) = {}
                /\ stringToElement_yields(hex) = {}

\* The three decoders one at a time, on a longer encoding.
C24_InitPairingRejectsLong ==
    (/\ wasm.call = "init_pairing"
     /\ wasm.ret # 1
     /\ \E hex \in WrongLengthEncodings : Len(hex) > 2)
        => wasm.ret = -1

C24_HexToElementRejectsLong ==
    \A hex \in WrongLengthEncodings :
        Len(hex) > 2 => hexToElement_yields(hex, wasm.statics.pairing) = {}

C24_StringToElementRejectsLong ==
    \A hex \in WrongLengthEncodings : Len(hex) > 2 => stringToElement_yields(hex) = {}

\* The parameters, the PrepareBlindSignOutput and the scalars of the last
\* prepare_blind_sign as the native code holds them: the statics as
\* TIACParams, the JSON fields decoded from hex.
WasmParams ==
    [prime_order |-> wasm.statics.prime_order, g1 |-> wasm.statics.g1,
     h1 |-> wasm.statics.h1, g2 |-> wasm.statics.g2]

WasmOutputDecoded ==
    [comi |-> stringToElement(wasm.out.com_i),
     h |-> stringToElement(wasm.out.h),
     com |-> stringToElement(wasm.out.com),
     pi_s |-> [c |-> hexToMpz(wasm.out.proof.c), s1 |-> hexToMpz(wasm.out.proof.s1),
               s2 |-> hexToMpz(wasm.out.proof.s2), s3 |-> hexToMpz(wasm.out.proof.s3)]]

\* The native prepareBlindSign on the same DID, the same o and the same
\* draws of the generator.
NativePrepared ==
    LET p == wasm.statics.prime_order
    IN  prepareBlindSign(WasmParams, wasm.did_hex,
                         element_random_Zr(wasm.rnd, 1, p), hex_to_mpz(wasm.o_hex, p),
                         element_random_Zr(wasm.rnd, 2, p), element_random_Zr(wasm.rnd, 3, p),
                         element_random_Zr(wasm.rnd, 4, p))

WasmPrepared ==
    /\ wasm.call = "prepare_blind_sign"
    /\ wasm.out.error = ""
    /\ ~mpz_set_str_fails(wasm.did_hex)
    /\ ~mpz_set_str_fails(wasm.o_hex)

\* C25: for the same parameters, DID, o and random scalars the WASM
\* prepare_blind_sign computes the com_i, h, com and challenge c of the
\* native prepareBlindSign, in the same hex encoding, and its output passes
\* the native CheckKoR and the h check of blindSign under every signing key.
C25_WasmAgreesWithNative ==
    WasmPrepared =>
        /\ wasm.out.com_i = elementToStringG1(NativePrepared.comi)
        /\ wasm.out.h = elementToStringG1(NativePrepared.h)
        /\ wasm.out.com = elementToStringG1(NativePrepared.com)
        /\ hexToMpz(wasm.out.proof.c) = NativePrepared.pi_s.c
        /\ CheckKoR(WasmParams, WasmOutputDecoded.com, WasmOutputDecoded.comi,
                    WasmOutputDecoded.h, WasmOutputDecoded.pi_s)
        /\ \A xm, ym \in 1..(wasm.statics.prime_order - 1) :
             blindSign(WasmParams, WasmOutputDecoded, xm, ym, 0, 0).threw = ""

\* A prepare_blind_sign on valid input with a challenge other than 0 and a
\* DID other than 0.
C25_Witness ==
    /\ WasmPrepared
    /\ hexToMpz(wasm.out.proof.c) # 0
    /\ hex_to_mpz(wasm.did_hex, wasm.statics.prime_order) # 0
    /\ wasm.out.com_i # wasm.out.com


(***************************************************************************)
(* Specification SpecSha: the padding step of one call of SHA512 of        *)
(* sha512.c on a message of each length up to MaxMsgLen.                   *)
(***************************************************************************)
MaxMsgLen == 260

InitSha ==
    /\ \E len \in 0..MaxMsgLen :
         sha = [message |-> [k \in 1..len |-> k % 16], padded |-> <<>>]
    /\ params = Idle
    /\ pc = "call"
    /\ lag = Idle
    /\ dkg = Idle
    /\ run = Idle
    /\ shr = Idle
    /\ kor = Idle
    /\ sgn = Idle
    /\ prs = Idle
    /\ agg = Idle
    /\ cli = Idle
    /\ wasm = Idle
    /\ thr = Idle

CallSHA512 ==
    /\ pc = "call"
    /\ sha' = [sha EXCEPT !.padded = sha512_padded(sha.message)]
    /\ pc' = "done"
    /\ UNCHANGED <<params, lag, dkg, run, shr, kor, sgn, prs, agg, cli, wasm, thr>>

NextSha == CallSHA512

SpecSha == InitSha /\ [][NextSha]_vars

\* C29: for every message length len the buffer is a whole number of
\* 128-byte blocks of total length at least len + 17, and the 0x80 marker
\* written at offset len is still there after the bit length has been
\* written into the last 16 bytes.
C29_MarkerSurvivesPadding ==
    pc = "done" =>
        LET len == Len(sha.message)
        IN  /\ Len(sha.padded) % 128 = 0
            /\ Len(sha.padded) >= len + 17
            /\ sha.padded[len + 1] = 128

\* What the code keeps for the lengths with len mod 128 below 112: the FIPS
\* padding.
C29_PaddingBelow112 ==
    (pc = "done" /\ Len(sha.message) % 128 < 112) =>
        sha.padded = fips_padded(sha.message)

\* For the other lengths the buffer is always a block short.
C29_PaddingFrom112 ==
    (pc = "done" /\ Len(sha.message) % 128 >= 112) =>
        /\ Len(sha.padded) < Len(sha.message) + 17
        /\ sha.padded[Len(sha.message) + 1] # 128
        /\ sha.padded # fips_padded(sha.message)


(***************************************************************************)
(* Specification SpecThreads: two threads of one process, each sampling    *)
(* scalars through random_mpz_modp: the polynomial coefficients of         *)
(* randomPolynomial_ptr (keygen.cpp), whose generator is a function-local  *)
(* static, or the scalar of createDID (didgen.cpp), whose generator is     *)
(* thread_local.  A call gen() of the Mersenne twister reads the state and *)
(* then writes the advanced state; the two are separate steps, and nothing *)
(* in random_mpz_modp orders them between threads.                         *)
(***************************************************************************)
ThreadIds == {1, 2}
SamplingTasks == {"randomPolynomial_ptr", "createDID"}

\* The generator object the random_mpz_modp called by thread t uses: the one
\* static of keygen.cpp:11-12, or the thread's own instance of the
\* thread_local of didgen.cpp:10-11.
GeneratorOf(t) ==
    IF thr.task[t] = "randomPolynomial_ptr" THEN <<"keygen.cpp", 0>>
    ELSE <<"didgen.cpp", t>>

InitThreads ==
    /\ \E task \in [ThreadIds -> SamplingTasks], seed \in [0..2 -> 0..MaxSeed],
          t \in 1..MaxPolySize :
         thr = [task |-> task,
                \* scalars still to draw: t coefficients, or the one x of a DID
                left |-> [i \in ThreadIds |->
                             IF task[i] = "randomPolynomial_ptr" THEN t ELSE 1],
                at |-> [i \in ThreadIds |-> "idle"],
                loaded |-> [i \in ThreadIds |-> 0],
                \* gen(rd()): the static of keygen.cpp, the thread_locals of didgen.cpp
                static_gen |-> rng_seed(seed[0]),
                thread_local_gen |-> [i \in ThreadIds |-> rng_seed(seed[i])],
                drawn |-> [i \in ThreadIds |-> <<>>]]
    /\ params = Idle
    /\ pc = "threads"
    /\ lag = Idle
    /\ dkg = Idle
    /\ run = Idle
    /\ shr = Idle
    /\ kor = Idle
    /\ sgn = Idle
    /\ prs = Idle
    /\ agg = Idle
    /\ cli = Idle
    /\ wasm = Idle
    /\ sha = Idle

\* gen(): thread t reads the state of its generator.
GenLoad(t) ==
    /\ pc = "threads"
    /\ thr.at[t] = "idle"
    /\ thr.left[t] > 0
    /\ thr' = [thr EXCEPT !.at[t] = "loaded",
                          !.loaded[t] = IF thr.task[t] = "randomPolynomial_ptr"
                                            THEN thr.static_gen
                                        ELSE thr.thread_local_gen[t]]
    /\ UNCHANGED <<params, pc, lag, dkg, run, shr, kor, sgn, prs, agg, cli, wasm, sha>>

\* gen(): thread t writes the advanced state back and returns the output.
GenStore(t) ==
    /\ pc = "threads"
    /\ thr.at[t] = "loaded"
    /\ LET next == rng_next(thr.loaded[t])
       IN  thr' = [thr EXCEPT !.at[t] = "idle",
                              !.left[t] = @ - 1,
                              !.drawn[t] = Append(@, next),
                              !.static_gen = IF thr.task[t] = "randomPolynomial_ptr"
                                                 THEN next ELSE @,
                              !.thread_local_gen[t] = IF thr.task[t] = "createDID"
                                                          THEN next ELSE @]
    /\ UNCHANGED <<params, pc, lag, dkg, run, shr, kor, sgn, prs, agg, cli, wasm, sha>>

NextThreads == \E t \in ThreadIds : GenLoad(t) \/ GenStore(t)

SpecThreads == InitThreads /\ [][NextThreads]_vars

\* C27: the generator state is per-thread: no two threads that are sampling
\* at the same time are inside gen() on the same generator state.
C27_GeneratorStatePerThread ==
    \A t1, t2 \in ThreadIds :
        (t1 # t2 /\ thr.at[t1] = "loaded" /\ thr.at[t2] = "loaded")
            => GeneratorOf(t1) # GeneratorOf(t2)

\* What holds for createDID: a thread inside gen() for a DID scalar shares
\* its generator with no other thread.
C27_DidGeneratorPerThread ==
    \A t1, t2 \in ThreadIds :
        (t1 # t2 /\ thr.task[t1] = "createDID" /\ thr.at[t1] = "loaded")
            => GeneratorOf(t1) # GeneratorOf(t2)


(***************************************************************************)
(* Frame conditions of the pipeline of main() (specification SpecIssue).   *)
(***************************************************************************)
\* C26: no stage changes a value an earlier stage produced: blindSign
\* leaves the PrepareBlindSignOutput and the keys unchanged, unblindSign the
\* blind signatures and the keys, aggregateSign the partial signatures, and
\* every step after proveCredential (KoR generation, pairingCheck,
\* checkKoRVerify) the ProveCredentialOutput and the aggregate signature.
C26_StagesKeepEarlierValues ==
    [][/\ pc = "blindsign" => (run'.prepared = run.prepared /\ run'.keyOut = run.keyOut)
       /\ pc = "unblind" => (run'.signatures = run.signatures /\ run'.keyOut = run.keyOut)
       /\ pc = "aggregate" => run'.unblindResultsWithAdmin = run.unblindResultsWithAdmin
       /\ pc \in {"kor", "pairingcheck", "korverify", "totalverify"} =>
            (run'.prove = run.prove /\ run'.aggregate = run.aggregate)]_vars

\* The same without the KoR generation step, which is where main() stores
\* c, s1, s2, s3 into proveResults[i].
C26_StagesOtherThanKoR ==
    [][/\ pc = "blindsign" => (run'.prepared = run.prepared /\ run'.keyOut = run.keyOut)
       /\ pc = "unblind" => (run'.signatures = run.signatures /\ run'.keyOut = run.keyOut)
       /\ pc = "aggregate" => run'.unblindResultsWithAdmin = run.unblindResultsWithAdmin
       /\ pc = "kor" => (run'.aggregate = run.aggregate
                         /\ run'.prove.sigmaRnd = run.prove.sigmaRnd
                         /\ run'.prove.k = run.prove.k)
       /\ pc \in {"pairingcheck", "korverify", "totalverify"} =>
            (run'.prove = run.prove /\ run'.aggregate = run.aggregate)]_vars


(***************************************************************************)
(* Degenerate presentations (specification SpecPresent).                   *)
(***************************************************************************)
\* C28: pairingCheck returns false for every ProveCredentialOutput whose
\* h'' is the identity of G1.
C28_IdentityIsRejected ==
    \A i \in 1..Len(prs.shown) :
        prs.shown[i].proveRes.sigmaRnd.h = G_identity => ~prs.shown[i].pairing_ok

\* sigma'' = (1, 1) with an arbitrary k, handed to pairingCheck directly.
C28_OneOneIsRejected ==
    pc = "verify" =>
        \A k \in 0..(params.prime_order - 1) :
            ~pairingCheck(params, [sigmaRnd |-> [h |-> G_identity, s |-> G_identity],
                                   k |-> k])


(***************************************************************************)
(* The parallel blind-sign phase (specification SpecIssue).                *)
(***************************************************************************)
SignTasksDispatched == pc \notin {"keygen", "didgen", "prepare", "dispatch"}

\* The blind signature the EA with the given admin ID produces.
SignedBy(adminId) ==
    blindSign(params, run.prepared, run.keyOut.eaKeys[adminId + 1].sgk1,
              run.keyOut.eaKeys[adminId + 1].sgk2, adminId, 0)

C30_WitnessUnblinded ==
    /\ pc = "aggregate"
    /\ run.t >= 2
    /\ run.tasks[2] < run.tasks[1]
    /\ run.unblindResultsWithAdmin[2].adminId = run.tasks[2]

====
